---- MODULE Spec2Model ----
(***************************************************************************)
(* SimplePhn: the message-driven SMS dispatch service.                     *)
(*                                                                         *)
(* Part I models the consumption pipeline and its modem pool:              *)
(*   src/common/pulsar.py   PulsarService (consumer loop, ack / nack)      *)
(*   src/service/sms.py     _wait_for_modem, create_sms_task.__send_sms    *)
(*   src/common/config.py   ConfigLoader.get_modem, ModemWrapper           *)
(*                                                                         *)
(* Every worker is one PulsarService listener task of the process; all     *)
(* workers share the module-level pool port_files.  A step of a worker is  *)
(* the code it runs between two suspension points (await).  The bus client *)
(* calls receive / acknowledge / negative_acknowledge are taken to         *)
(* complete; the exceptions modelled are the ones the source can raise     *)
(* itself (payload decoding, payload typing, SMSMessage construction).     *)
(* Cancellation (PulsarService.stop -> task.cancel) is delivered at the    *)
(* suspension points receive, asyncio.sleep and run_in_executor(send).     *)
(*                                                                         *)
(* Part II models the legacy manager's choice of a session:                *)
(*   src/src/common/modem_manager.py   _select_modem_for_sending           *)
(* Part III models the legacy sender's segmentation of a message body:     *)
(*   src/src/sms_service/sms_sender.py to_ucs2_hex, _encode_long_sms_ucs2, *)
(*                                     send_sms, send_long_sms             *)
(* A body is a sequence of code points; utf-16-be is computed per code     *)
(* point, so that characters and 16-bit code units are counted apart.      *)
(*                                                                         *)
(* Part IV models the life of the legacy manager's sessions:               *)
(*   src/src/common/modem_manager.py   ManagedModem, ModemManager          *)
(*                                     (initialize, send_sms, health_check,*)
(*                                     cleanup)                            *)
(* Part V models discovery, the module-level pool being built:             *)
(*   src/common/config.py   ConfigLoader.port_files                        *)
(* Part VI models the gRPC service's start and stop:                       *)
(*   src/main.py            SMSMicroservice, main_async                    *)
(* Part VII models the parts at the edge of the service:                   *)
(*   src/src/sms_service/consul_client.py  register_service,               *)
(*                                     deregister_service and the schema   *)
(*                                     key, for instances of one name      *)
(*   src/service/sms.py     SMSMessage.from_dict                           *)
(*   src/src/sms_service/sms_sender.py     the AT dialogue of one send     *)
(*   src/common/pulsar.py   PulsarService.start, stop, _cleanup            *)
(*   src/src/common/serial_manager.py      acquire_modem, release_modem,   *)
(*                                     send_sms, test_all_connections      *)
(***************************************************************************)
EXTENDS Integers, Sequences, FiniteSets, TLC

\* ---------------------------------------------------------------- bounds
NumPorts   == 1      \* modems found by discovery
NumWorkers == 2      \* listener tasks in the process
MaxMsgs    == 2      \* bus deliveries over a run
MaxCancels == 1      \* task.cancel() requests over a run
MaxSends   == 4      \* send requests over a run of the pool under load
NumModems  == 2      \* sessions held by the legacy ModemManager
NumScanned == 3      \* serial ports the glob patterns of ConfigLoader match
LongMaxAttempts == 6 \* max_attempts of a _wait_for_modem call longer than the default
MaxBody    == 135    \* longest message body, in characters, handed to SMSSender
MaxErrors  == 1      \* largest ModemInfo.error_count drawn for a session
MaxStops   == 2      \* SMSMicroservice.stop() invocations over a run
MaxSignals == 2      \* SIGINT / SIGTERM deliveries, each a request_shutdown()
NumInstances == 2    \* service instances that share one service name in Consul
MaxPhone   == 3      \* longest 'phone' value, in characters, given to SMSMessage.from_dict
MaxOps     == 3      \* send_sms and health_check calls on the ModemManager over a run
NumStopCalls == 2    \* PulsarService.stop() calls over a run
NumSenders == 2      \* SerialManager.send_sms calls that overlap
NumLeased  == 2      \* modems held by the SerialManager

\* ------------------------------------------------------ program constants
max_redelivery_count == 3    \* PulsarService.max_redelivery_count
max_attempts         == 5    \* _wait_for_modem(max_attempts=5)
default_wait         == 60   \* _wait_for_modem: default_wait
UnhealthyAt          == 3    \* send_sms_sync: 'unhealthy' if error_count >= 3
RefuseAt             == 5    \* send_sms_sync: refuse if error_count >= 5
wait_times           == <<60, 180, 300, 420, 540>>

Ports   == 1..NumPorts
Workers == 1..NumWorkers
NoPort  == 0

\* Payload shapes a bus message can carry (msg.data()).
DataKinds == {"good", "empty", "bad_utf8", "bad_json", "not_object"}

\* Redelivery counts a delivery can carry: first delivery, last one under the cap,
\* the cap itself.
RedeliveryCounts == {0, max_redelivery_count - 1, max_redelivery_count}

NoMsg     == [redelivery_count |-> 0, data |-> "none"]
NoWrapper == [port |-> NoPort, owner |-> 0, serial |-> 0]

VARIABLES
  port_files,      \* config.port_files: port -> {lock, last_used, status, error_count}
  wrappers,        \* the ModemWrapper objects that are alive (not yet finalised)
  executor,        \* wrappers held by the run_in_executor work items running _sync_send
  now,             \* time.time(), a logical clock
  received,        \* bus deliveries so far
  cancels,         \* cancel requests so far
  pc,              \* worker -> where its listener task is suspended
  msg,             \* worker -> the message handed to _process_message
  inflight,        \* worker -> messages received and neither acked nor nacked
  acks, nacks,     \* worker -> acknowledge / negative_acknowledge calls for msg
  decoded,         \* worker -> json.loads was reached for msg
  handler_calls,   \* worker -> message_handler invocations for msg
  handler_result,  \* worker -> "none" | "true" | "false" | "raised"
  raised,          \* worker -> an exception reached line 167 for msg
  cancelled,       \* worker -> msg's task caught CancelledError: "no" | "sleep" | "send"
  attempt,         \* worker -> _wait_for_modem loop variable
  pool_used,       \* worker -> ModemWrapper.try_new() was called for msg
  sleep_for,       \* worker -> argument of the pending asyncio.sleep
  modem_wrapper,   \* worker -> local variable modem_wrapper of __send_sms
  tries,           \* worker -> ModemWrapper.try_new() calls made for msg
  waited,          \* worker -> the asyncio.sleep arguments slept through for msg
  modems,          \* ModemManager.modems: port -> ModemInfo fields read by the selector
  time_now,        \* time.time() as read by ModemManager
  selected_modem,  \* <<>> before _select_modem_for_sending ran, then <<its result>>
  content,         \* SMSSender.send_sms: the body, a sequence of code points
  reference_num,   \* _encode_long_sms_ucs2: what random.randint(1, 255) gives
  sender_pc,       \* "idle" | "send_sms" | "single" | "long" | "return" | "done"
  encoded_segments,\* send_long_sms: the list of (data_length, full_message_hex)
  results,         \* send_long_sms: SMSResult.success of the segments sent so far
  written,         \* the payloads written to the serial port, in order
  reported,        \* <<>> until send_sms returns, then <<SMSResult.success>>
  initialized,     \* ModemManager._initialized
  probe,           \* port -> "pending" | "ok" | "failed": how _initialize_modem ended
  closed,          \* ports whose GsmModem.close() was called
  mgr_job,         \* the ModemManager coroutine suspended in gather, or "new" | "idle" | "cleaned"
  job_next,        \* the first port whose task of that gather has not run yet
  last_send,       \* what the latest ModemManager.send_sms did
  faulted,         \* ports whose health_check raised in the latest pass
  healthy,         \* health_check: ports whose task returned True in the running pass
  ops,             \* send_sms and health_check calls so far
  all_ports,       \* port_files: what glob and GsmModem.connect give for each scanned port
  tmp_ports,       \* port_files: the ports of the dict the property builds and returns
  modem_closed,    \* port_files: ports whose modem.close() was called and returned
  scan_pc,         \* "new" until the property port_files has built the pool, then "done"
  svc_pc,          \* where main_async / SMSMicroservice.start / stop is suspended
  steps,           \* the startup and teardown steps performed so far, in order
  start_result,    \* "none" until start() returns, then "true" | "false"
  fail_cause,      \* what made start() return False: "none" | "config" | "pool" | "other"
  exit_code,       \* <<>> while the process runs, then <<its exit status>>
  shutting_down,   \* SMSMicroservice._shutting_down
  shutdown_event,  \* SMSMicroservice._shutdown_event.is_set()
  health_task,     \* _health_task: "none" | "running" | "cancelling" | "done"
  main_task,       \* _main_task: "none" | "running" | "cancelling"
  consul_client,   \* "none" | "unregistered" | "registered"
  grpc_server,     \* "none" | "created" | "serving" | "stopped"
  serial_manager,  \* "none" | "created" | "ready" | "cleaned"
  stops,           \* stop() invocations so far
  signals,         \* request_shutdown() invocations so far
  catalog,         \* Consul: instance -> "absent" | "critical" | "passing", its service entry
  kv,              \* Consul: the key kv_base_path + service_name exists
  c_pc,            \* instance -> the Consul call its ConsulClient makes next
  registered,      \* instance -> ConsulClient.registered
  kv_registered,   \* instance -> ConsulClient.kv_registered
  dereg_raised,    \* instance -> a call of its deregister_service raised
  json_data,       \* SMSMessage.from_dict: its argument, the keys present and their values
  message,         \* <<>> until from_dict ended, then <<what it returned or raised>>
  body_chars,      \* SMSSender.send_sms: len(content) of the request on the serial line
  serial_open,     \* self.serial is set and is_open
  dlg_pc,          \* where _send_encoded_sms / _send_pdu_sms is in its dialogue
  cmd_ix,          \* _send_at_command calls of the dialogue so far
  line,            \* what was written to the serial port, in order
  prompt_reads,    \* read_all() calls made for the '>' prompt
  prompt,          \* '>' is in the response read after AT+CMGS
  total_wait_time, \* _wait_for_response: its loop variable
  final_response,  \* _wait_for_response: the chunks received
  dlg_result,      \* <<>> until the dialogue returned, then <<its SMSResult>>
  listener_task,   \* PulsarService.task: the await _pulsar_listener is suspended at
  must_cancel,     \* task.cancel() was called and CancelledError is not yet delivered
  client,          \* PulsarService.client is set
  consumer,        \* PulsarService.consumer is set
  consumer_closes, \* consumer.close invocations so far
  client_closes,   \* client.close invocations so far
  stop_pc,         \* stop() call -> the await it is suspended at
  in_use,          \* SerialManager: modem -> ManagedModem.in_use
  lock,            \* SerialManager: modem -> ManagedModem.lock.locked()
  op_pc,           \* operation -> where its send_sms / test_all_connections is
  op_modem,        \* operation -> the modem it selected or tests, 0 before
  exit_path,       \* operation -> how it left: "none" | "returned" | "raised" | ...
  tested           \* test_all_connections: the modems its loop has finished with

poolVars == <<port_files, wrappers, executor, now>>
busVars  == <<received, cancels, pc, msg, inflight, acks, nacks, decoded,
              handler_calls, handler_result, raised, cancelled>>
taskVars == <<attempt, pool_used, sleep_for, modem_wrapper, tries, waited>>
managerVars == <<modems, time_now, selected_modem>>
senderVars  == <<content, reference_num, sender_pc, encoded_segments, results,
                 written, reported>>
lifeVars    == <<initialized, probe, closed, mgr_job, job_next, last_send, faulted, healthy,
                 ops>>
discVars    == <<all_ports, tmp_ports, modem_closed, scan_pc>>
svcVars     == <<svc_pc, steps, start_result, fail_cause, exit_code, shutting_down,
                 shutdown_event, health_task, main_task, consul_client, grpc_server,
                 serial_manager, stops, signals>>
kvVars      == <<catalog, kv, c_pc, registered, kv_registered, dereg_raised>>
msgVars     == <<json_data, message>>
atVars      == <<body_chars, serial_open, dlg_pc, cmd_ix, line, prompt_reads, prompt,
                 total_wait_time, final_response, dlg_result>>
stopVars    == <<listener_task, must_cancel, client, consumer, consumer_closes,
                 client_closes, stop_pc>>
leaseVars   == <<in_use, lock, op_pc, op_modem, exit_path, tested>>
edgeVars    == <<stopVars, leaseVars>>
outerVars   == <<kvVars, msgVars, atVars, edgeVars>>
componentVars == <<lifeVars, discVars, svcVars, outerVars>>
innerVars   == <<poolVars, busVars, taskVars, managerVars, senderVars, lifeVars, discVars,
                 svcVars>>
legacyVars  == <<managerVars, senderVars, componentVars>>
vars     == <<poolVars, busVars, taskVars, legacyVars>>


\* ------------------------------------------------------------ the modem pool
Min(S)    == CHOOSE x \in S : \A y \in S : x <= y
Max(a, b) == IF a >= b THEN a ELSE b

\* ConfigLoader.port_files: the entry built for a discovered port.
NewPortInfo == [lock |-> FALSE, last_used |-> 0, status |-> "healthy", error_count |-> 0]

\* get_modem without the test of the lock flag.
get_modem_ignoring_lock(pf) == Min(Ports)

\* A pool that never hands out a port.
get_modem_never(pf) == NoPort

\* ConfigLoader.get_modem: the first port, in key order, whose lock is clear.
get_modem(pf) ==
  LET free == {p \in Ports : ~pf[p].lock}
  IN  IF free = {} THEN NoPort ELSE Min(free)

\* ModemWrapper.__init__ on the entry of its port.
Wrapper_init(info) == [info EXCEPT !.lock = TRUE]

\* ModemWrapper.__del__ on the entry of its port, at time t.
Wrapper_del(info, t) == [info EXCEPT !.lock = FALSE, !.last_used = t]

\* send_sms_sync: the two checks that raise before modem.sendSms is called.
SendRefused(info) == info.status # "healthy" \/ info.error_count >= RefuseAt

\* send_sms_sync: result['success'].
SendSucceeds(info, sendOk) == ~SendRefused(info) /\ sendOk

\* send_sms_sync that counts a success as it counts a failure.
send_sms_sync_counting_up(info, sendOk, t) ==
  LET ec == info.error_count + 1
  IN  [info EXCEPT !.error_count = ec,
                   !.status = IF ec >= UnhealthyAt THEN "unhealthy" ELSE "healthy",
                   !.last_used = t]

\* send_sms_sync: the entry of the port when the call returns at time t.
send_sms_sync(info, sendOk, t) ==
  IF SendSucceeds(info, sendOk)
  THEN [info EXCEPT !.error_count = Max(0, @ - 1), !.last_used = t]
  ELSE LET ec == info.error_count + 1
       IN  [info EXCEPT !.error_count = ec,
                        !.status = IF ec >= UnhealthyAt THEN "unhealthy" ELSE "healthy",
                        !.last_used = t]

\* The wrappers some reference still reaches: the local variable of a task, or
\* the closure _sync_send of a work item the executor is running.
Referenced(mw, ex) == ({mw[w] : w \in Workers} \cup ex) \ {NoWrapper}

\* Reference counting: wrappers of ws that nothing references are finalised at t.
Finalised(pf, ws, mw, ex, t) ==
  [p \in Ports |-> IF \E x \in ws \ Referenced(mw, ex) : x.port = p
                   THEN Wrapper_del(pf[p], t) ELSE pf[p]]

\* A schedule that goes on with its last entry once the list is used up.
WaitTime_repeat_last(a) ==
  IF a < Len(wait_times) THEN wait_times[a + 1] ELSE wait_times[Len(wait_times)]

\* _wait_for_modem: the wait after failed attempt number a (0-based).
WaitTime(a) == IF a < Len(wait_times) THEN wait_times[a + 1] ELSE default_wait

\* ------------------------------------------------------ the consumer pipeline
\* The redelivery cap compared with > instead of >=.
IsPoisoned_off_by_one(m) == m.redelivery_count > max_redelivery_count

\* _process_message: the redelivery cap.
IsPoisoned(m) == m.redelivery_count >= max_redelivery_count

\* A decoder that swallows JSONDecodeError and goes on with an empty object.
Decode_lenient(d) ==
  CASE d = "bad_utf8"   -> "UnicodeDecodeError"
    [] d = "not_object" -> "value"
    [] OTHER            -> "object"

\* _process_message: json.loads(msg.data().decode('utf-8')) if msg.data() else {}
Decode(d) ==
  CASE d = "empty"      -> "object"
    [] d = "bad_utf8"   -> "UnicodeDecodeError"
    [] d = "bad_json"   -> "JSONDecodeError"
    [] d = "not_object" -> "value"
    [] OTHER            -> "object"

\* SMSMessage.from_dict: cls(**...) raises TypeError when 'content' is missing.
FromDictRaises(d) == d = "empty"

\* A tail of _process_message that acknowledges whatever the handler returned.
BusAction_always_ack(success) == "ack"

\* The handler given to PulsarService.start: SMSMessage.from_dict(payload), then
\* create_sms_task(...) awaited for its boolean.  What it does before it first
\* suspends: raise, or start the task.
message_handler(d) == IF FromDictRaises(d) THEN "raise" ELSE "task"

\* _process_message: ack on success, nack otherwise.
BusAction(success) == IF success THEN "ack" ELSE "nack"

\* consumer.acknowledge / consumer.negative_acknowledge for the message of w, after
\* which _process_message returns and the loop is back at consumer.receive().
Settle(w, action) ==
  /\ acks'  = [acks  EXCEPT ![w] = @ + (IF action = "ack"  THEN 1 ELSE 0)]
  /\ nacks' = [nacks EXCEPT ![w] = @ + (IF action = "nack" THEN 1 ELSE 0)]
  /\ inflight' = [inflight EXCEPT ![w] = @ - 1]
  /\ pc' = [pc EXCEPT ![w] = "receive"]

\* ------------------------------------------------- the legacy modem manager
\* src/src/common/modem_manager.py.  Scores are kept exact by scaling them with
\* ScoreScale; the three key evaluations of one max() call read the clock at
\* one instant.
Modems         == 1..NumModems
SignalValues   == {0 - 1, 9, 24}
LastUsedValues == {0, 3600, 7000}
SelectTime     == 2 * 3600
ScoreScale     == 99 * 3600 * 10

\* ModemInfo, the fields the selector reads.
ModemInfos ==
  [signal_strength : SignalValues, is_available : BOOLEAN, in_use : BOOLEAN,
   last_used : LastUsedValues, error_count : 0..MaxErrors]

\* _initialize_modem: the ModemInfo of a session before its signal is known.
NewModemInfo ==
  [signal_strength |-> 0 - 1, is_available |-> TRUE, in_use |-> FALSE,
   last_used |-> 0, error_count |-> 0]

\* modem_score, times ScoreScale.
modem_score(info, t) ==
  LET signal_score        == IF info.signal_strength > 0
                             THEN info.signal_strength * (ScoreScale \div 99)
                             ELSE 0
      error_penalty       == info.error_count * (ScoreScale \div 10)
      time_since_last_use == t - info.last_used
      freshness_bonus     == IF time_since_last_use * (ScoreScale \div 3600) <= ScoreScale
                             THEN time_since_last_use * (ScoreScale \div 3600)
                             ELSE ScoreScale
  IN  signal_score + freshness_bonus - error_penalty

\* _select_modem_for_sending: the candidates.
available_modems(ms) == {p \in DOMAIN ms : ms[p].is_available /\ ~ms[p].in_use}

\* A selector that takes the first candidate whatever its score.
select_first_available(ms, t) ==
  IF available_modems(ms) = {} THEN NoPort ELSE Min(available_modems(ms))

\* _select_modem_for_sending: max(available_modems, key=modem_score), which
\* returns the first candidate, in the order of self.modems, whose key is maximal.
select_modem_for_sending(ms, t) ==
  LET av == available_modems(ms)
  IN  IF av = {} THEN NoPort
      ELSE Min({p \in av : \A q \in av : modem_score(ms[p], t) >= modem_score(ms[q], t)})

\* --------------------------------------------------------- the SMS sender
\* src/src/sms_service/sms_sender.py.  A str is a sequence of code points, its
\* len() their number; a hex string is the sequence of the bytes it spells.
MAX_SEGMENT_CHARS == 67
SingleLimit       == 70
BmpChar(i)    == 19968 + i       \* U+4E00 + i, one UTF-16 code unit
AstralChar(i) == 128512 + i      \* U+1F600 + i, a surrogate pair
RefValues     == {1, 255}
BodyLengths   == {n \in 1..MaxBody : n <= 2 \/ n % MAX_SEGMENT_CHARS \in {0, 1, 3, 4}}

\* A body of n characters, all different, the first a of them outside the BMP.
Body(n, a) == [i \in 1..n |-> IF i <= a THEN AstralChar(i) ELSE BmpChar(i)]
Bodies     == {Body(n, a) : n \in BodyLengths, a \in 0..1}

\* str.encode("utf-16-be") of one code point: its code units.
utf_16_be(cp) ==
  IF cp < 65536 THEN <<cp>>
  ELSE <<55296 + ((cp - 65536) \div 1024), 56320 + ((cp - 65536) % 1024)>>

RECURSIVE code_units(_)
\* str.encode("utf-16-be"): the code units of a string.
code_units(str) ==
  IF str = <<>> THEN <<>>
  ELSE IF Len(str) = 1 THEN utf_16_be(str[1])
  ELSE LET half == Len(str) \div 2
       IN  code_units(SubSeq(str, 1, half)) \o code_units(SubSeq(str, half + 1, Len(str)))

RECURSIVE unit_bytes(_)
\* Big-endian bytes of a sequence of code units.
unit_bytes(us) ==
  IF us = <<>> THEN <<>>
  ELSE IF Len(us) = 1 THEN <<us[1] \div 256, us[1] % 256>>
  ELSE LET half == Len(us) \div 2
       IN  unit_bytes(SubSeq(us, 1, half)) \o unit_bytes(SubSeq(us, half + 1, Len(us)))

\* to_ucs2_hex: s.encode("utf-16-be").hex().upper().
to_ucs2_hex(str) == unit_bytes(code_units(str))

\* An encoder whose slices start one character early from the second on.
encode_long_sms_ucs2_overlapping(str, ref) ==
  LET total_chars  == Len(str)
      num_segments == (total_chars + MAX_SEGMENT_CHARS - 1) \div MAX_SEGMENT_CHARS
  IN  [k \in 1..num_segments |->
        LET start == IF k = 1 THEN 0 ELSE (k - 1) * MAX_SEGMENT_CHARS - 1
            end   == Min({(k - 1) * MAX_SEGMENT_CHARS + MAX_SEGMENT_CHARS, total_chars})
            full  == <<5, 0, 3, ref % 256, num_segments % 256, k % 256>>
                       \o to_ucs2_hex(SubSeq(str, start + 1, end))
        IN  [data_length |-> Len(full), full_message_hex |-> full]]

\* _encode_long_sms_ucs2(content, reference_num); k is segment_index + 1.
encode_long_sms_ucs2(str, ref) ==
  LET total_chars  == Len(str)
      num_segments == (total_chars + MAX_SEGMENT_CHARS - 1) \div MAX_SEGMENT_CHARS
  IN  [k \in 1..num_segments |->
        LET start        == (k - 1) * MAX_SEGMENT_CHARS
            end          == Min({start + MAX_SEGMENT_CHARS, total_chars})
            segment_text == SubSeq(str, start + 1, end)
            udh_hex      == <<5, 0, 3, ref % 256, num_segments % 256, k % 256>>
            full         == udh_hex \o to_ucs2_hex(segment_text)
        IN  [data_length |-> Len(full), full_message_hex |-> full]]

\* The sender before send_sms is called.
SenderIdle ==
  /\ content = <<>>
  /\ reference_num = 1
  /\ sender_pc = "idle"
  /\ encoded_segments = <<>>
  /\ results = <<>>
  /\ written = <<>>
  /\ reported = <<>>

\* What a send_sms that selected no session leaves in last_send.
NoSend == [port |-> NoPort, success |-> FALSE, error_count |-> 0, was_closed |-> FALSE]

\* ModemManager.__init__.
ManagerNew ==
  /\ initialized = FALSE
  /\ probe = [p \in Modems |-> "pending"]
  /\ closed = {}
  /\ mgr_job = "new"
  /\ job_next = 1
  /\ last_send = NoSend
  /\ faulted = {}
  /\ healthy = {}
  /\ ops = 0

\* ConfigLoader before its property port_files is first read, no port scanned.
DiscoveryNew ==
  /\ all_ports = <<>>
  /\ tmp_ports = {}
  /\ modem_closed = {}
  /\ scan_pc = "new"

\* SMSMicroservice.__init__ (src/main.py 24-33), main_async about to call start().
ServiceNew ==
  /\ svc_pc = "start"
  /\ steps = <<>>
  /\ start_result = "none"
  /\ fail_cause = "none"
  /\ exit_code = <<>>
  /\ shutting_down = FALSE
  /\ shutdown_event = FALSE
  /\ health_task = "none"
  /\ main_task = "none"
  /\ consul_client = "none"
  /\ grpc_server = "none"
  /\ serial_manager = "none"
  /\ stops = 0
  /\ signals = 0

\* The components of the services before they are used.
\* ConsulClient.__init__ of every instance, and a Consul that knows none of them.
ConsulNew ==
  /\ catalog = [i \in 1..NumInstances |-> "absent"]
  /\ kv = FALSE
  /\ c_pc = [i \in 1..NumInstances |-> "new"]
  /\ registered = [i \in 1..NumInstances |-> FALSE]
  /\ kv_registered = [i \in 1..NumInstances |-> FALSE]
  /\ dereg_raised = [i \in 1..NumInstances |-> FALSE]

\* No payload has been handed to SMSMessage.from_dict.
NoJson == [keys |-> {}, phone |-> <<>>, content |-> "", metadata |-> "{}"]

MessageNew ==
  /\ json_data = NoJson
  /\ message = <<>>

\* A connected sender that was asked nothing.
DialogueNew ==
  /\ body_chars = 1
  /\ serial_open = TRUE
  /\ dlg_pc = "idle"
  /\ cmd_ix = 0
  /\ line = <<>>
  /\ prompt_reads = 0
  /\ prompt = FALSE
  /\ total_wait_time = 0
  /\ final_response = {}
  /\ dlg_result = <<>>

\* PulsarService.__init__: no client, no consumer, no task; nobody called stop().
PulsarNew ==
  /\ listener_task = "none"
  /\ must_cancel = FALSE
  /\ client = FALSE
  /\ consumer = FALSE
  /\ consumer_closes = 0
  /\ client_closes = 0
  /\ stop_pc = [s \in 1..NumStopCalls |-> "idle"]

\* SerialManager after initialize: every modem free, nothing asked of it.
LeaseNew ==
  /\ in_use = [m \in 1..NumLeased |-> FALSE]
  /\ lock = [m \in 1..NumLeased |-> FALSE]
  /\ op_pc = [o \in 0..NumSenders |-> "idle"]
  /\ op_modem = [o \in 0..NumSenders |-> 0]
  /\ exit_path = [o \in 0..NumSenders |-> "none"]
  /\ tested = {}

EdgeNew == PulsarNew /\ LeaseNew

OuterNew == ConsulNew /\ MessageNew /\ DialogueNew /\ EdgeNew

ComponentsIdle == ManagerNew /\ DiscoveryNew /\ ServiceNew /\ OuterNew

\* The manager before it is used: self.modems = {}.
ManagerIdle ==
  /\ modems = [p \in {} |-> NewModemInfo]
  /\ time_now = 0
  /\ selected_modem = <<>>

\* PulsarService.__init__ and the pool as ConfigLoader.port_files builds it.
PipelineIdle ==
  /\ port_files = [p \in Ports |-> NewPortInfo]
  /\ wrappers = {}
  /\ executor = {}
  /\ now = 1
  /\ received = 0
  /\ cancels = 0
  /\ pc = [w \in Workers |-> "receive"]
  /\ msg = [w \in Workers |-> NoMsg]
  /\ inflight = [w \in Workers |-> 0]
  /\ acks = [w \in Workers |-> 0]
  /\ nacks = [w \in Workers |-> 0]
  /\ decoded = [w \in Workers |-> FALSE]
  /\ handler_calls = [w \in Workers |-> 0]
  /\ handler_result = [w \in Workers |-> "none"]
  /\ raised = [w \in Workers |-> "none"]
  /\ cancelled = [w \in Workers |-> "no"]
  /\ attempt = [w \in Workers |-> 0]
  /\ pool_used = [w \in Workers |-> FALSE]
  /\ sleep_for = [w \in Workers |-> 0]
  /\ modem_wrapper = [w \in Workers |-> NoWrapper]
  /\ tries = [w \in Workers |-> 0]
  /\ waited = [w \in Workers |-> <<>>]

Init ==
  /\ PipelineIdle
  /\ ManagerIdle
  /\ SenderIdle
  /\ ComponentsIdle

\* _pulsar_listener: consumer.receive() returns message m to the listener w, which
\* calls _process_message(m).
Deliver(w, m) ==
  /\ pc[w] = "receive"
  /\ msg' = [msg EXCEPT ![w] = m]
  /\ received' = received + 1
  /\ inflight' = [inflight EXCEPT ![w] = @ + 1]
  /\ pc' = [pc EXCEPT ![w] = "process"]
  /\ acks' = [acks EXCEPT ![w] = 0]
  /\ nacks' = [nacks EXCEPT ![w] = 0]
  /\ decoded' = [decoded EXCEPT ![w] = FALSE]
  /\ handler_calls' = [handler_calls EXCEPT ![w] = 0]
  /\ handler_result' = [handler_result EXCEPT ![w] = "none"]
  /\ raised' = [raised EXCEPT ![w] = "none"]
  /\ cancelled' = [cancelled EXCEPT ![w] = "no"]
  /\ attempt' = [attempt EXCEPT ![w] = 0]
  /\ pool_used' = [pool_used EXCEPT ![w] = FALSE]
  /\ sleep_for' = [sleep_for EXCEPT ![w] = 0]
  /\ tries' = [tries EXCEPT ![w] = 0]
  /\ waited' = [waited EXCEPT ![w] = <<>>]
  /\ UNCHANGED <<poolVars, cancels, modem_wrapper>>
  /\ UNCHANGED legacyVars

\* The bus delivers any message: any redelivery count, any payload.
Receive(w) ==
  /\ received < MaxMsgs
  /\ \E rc \in RedeliveryCounts, d \in DataKinds :
       Deliver(w, [redelivery_count |-> rc, data |-> d])

\* The bus delivers a well-formed send request for the first time.
ReceiveRequest(w) ==
  /\ received < MaxSends
  /\ Deliver(w, [redelivery_count |-> 0, data |-> "good"])

\* The redelivery cap without its return: the nack is followed by the decoding.
CheckRedelivery_no_return(w) ==
  /\ pc[w] = "process"
  /\ pc' = [pc EXCEPT ![w] = "decode"]
  /\ IF IsPoisoned(msg[w])
     THEN /\ nacks' = [nacks EXCEPT ![w] = @ + 1]
          /\ inflight' = [inflight EXCEPT ![w] = @ - 1]
          /\ UNCHANGED acks
     ELSE UNCHANGED <<acks, nacks, inflight>>
  /\ UNCHANGED <<poolVars, taskVars, received, cancels, msg, decoded, handler_calls,
                 handler_result, raised, cancelled>>
  /\ UNCHANGED legacyVars

\* _process_message, lines 134-142: the redelivery cap.
CheckRedelivery(w) ==
  /\ pc[w] = "process"
  /\ IF IsPoisoned(msg[w])
     THEN Settle(w, "nack")
     ELSE /\ pc' = [pc EXCEPT ![w] = "decode"]
          /\ UNCHANGED <<acks, nacks, inflight>>
  /\ UNCHANGED <<poolVars, taskVars, received, cancels, msg, decoded, handler_calls,
                 handler_result, raised, cancelled>>
  /\ UNCHANGED legacyVars

\* Decoding whose exceptions other than JSONDecodeError escape _process_message:
\* the listener re-raises them (line 115) and ends.
DecodePayload_escaping(w) ==
  /\ pc[w] = "decode"
  /\ decoded' = [decoded EXCEPT ![w] = TRUE]
  /\ LET r == Decode(msg[w].data)
     IN  IF r = "object"
         THEN /\ pc' = [pc EXCEPT ![w] = "handler"]
              /\ UNCHANGED <<acks, nacks, inflight, raised>>
         ELSE /\ raised' = [raised EXCEPT ![w] = IF r = "value" THEN "TypeError" ELSE r]
              /\ IF r = "JSONDecodeError"
                 THEN Settle(w, "nack")
                 ELSE /\ pc' = [pc EXCEPT ![w] = "crashed"]
                      /\ UNCHANGED <<acks, nacks, inflight>>
  /\ UNCHANGED <<poolVars, taskVars, received, cancels, msg, handler_calls,
                 handler_result, cancelled>>
  /\ UNCHANGED legacyVars

\* _process_message, lines 144-154: decode the payload and tag it.
DecodePayload(w) ==
  /\ pc[w] = "decode"
  /\ decoded' = [decoded EXCEPT ![w] = TRUE]
  /\ LET r == Decode(msg[w].data)
     IN  IF r = "object"
         THEN /\ pc' = [pc EXCEPT ![w] = "handler"]
              /\ UNCHANGED <<acks, nacks, inflight, raised>>
         ELSE \* JSONDecodeError: line 149; UnicodeDecodeError, or TypeError on
              \* payload["_service"] = ... for a non-object value: line 169.
              /\ raised' = [raised EXCEPT ![w] = IF r = "value" THEN "TypeError" ELSE r]
              /\ Settle(w, "nack")
  /\ UNCHANGED <<poolVars, taskVars, received, cancels, msg, handler_calls,
                 handler_result, cancelled>>
  /\ UNCHANGED legacyVars

\* A listener that starts the handler as a background task and goes straight
\* back to consumer.receive().
CallHandler_detached(w) ==
  /\ pc[w] = "handler"
  /\ handler_calls' = [handler_calls EXCEPT ![w] = @ + 1]
  /\ pc' = [pc EXCEPT ![w] = "receive"]
  /\ UNCHANGED <<poolVars, taskVars, received, cancels, msg, decoded, cancelled,
                 acks, nacks, inflight, handler_result, raised>>
  /\ UNCHANGED legacyVars

\* _process_message, lines 156-157: success = await message_handler(payload); the
\* task __send_sms runs up to its call of _wait_for_modem.
CallHandler(w) ==
  /\ pc[w] = "handler"
  /\ handler_calls' = [handler_calls EXCEPT ![w] = @ + 1]
  /\ IF message_handler(msg[w].data) = "raise"
     THEN /\ handler_result' = [handler_result EXCEPT ![w] = "raised"]
          /\ raised' = [raised EXCEPT ![w] = "TypeError"]
          /\ Settle(w, "nack")
     ELSE /\ pc' = [pc EXCEPT ![w] = "acquire"]
          /\ UNCHANGED <<acks, nacks, inflight, handler_result, raised>>
  /\ UNCHANGED <<poolVars, taskVars, received, cancels, msg, decoded, cancelled>>
  /\ UNCHANGED legacyVars

\* _wait_for_modem(n): one pass of the loop body: try_new, then either leave
\* with the wrapper (and __send_sms hands the send to the executor) or start to
\* sleep.
TryNewUpTo(w, n) ==
  /\ pc[w] = "acquire"
  /\ attempt[w] < n
  /\ pool_used' = [pool_used EXCEPT ![w] = TRUE]
  /\ tries' = [tries EXCEPT ![w] = @ + 1]
  /\ LET p == get_modem(port_files)
         x == [port |-> p, owner |-> w, serial |-> received]
     IN  IF p # NoPort
         THEN /\ port_files' = [port_files EXCEPT ![p] = Wrapper_init(@)]
              /\ wrappers' = wrappers \cup {x}
              /\ modem_wrapper' = [modem_wrapper EXCEPT ![w] = x]
              /\ executor' = executor \cup {x}
              /\ attempt' = [attempt EXCEPT ![w] = 0]
              /\ pc' = [pc EXCEPT ![w] = "send"]
              /\ UNCHANGED sleep_for
         ELSE /\ sleep_for' = [sleep_for EXCEPT ![w] = WaitTime(attempt[w])]
              /\ pc' = [pc EXCEPT ![w] = "sleep"]
              /\ UNCHANGED <<port_files, wrappers, modem_wrapper, executor, attempt>>
  /\ UNCHANGED <<now, received, cancels, msg, inflight, acks, nacks, decoded,
                 handler_calls, handler_result, raised, cancelled, waited>>
  /\ UNCHANGED legacyVars

\* __send_sms, line 114: modem_wrapper = await _wait_for_modem().
TryNew(w) == TryNewUpTo(w, max_attempts)

\* _wait_for_modem: asyncio.sleep returns, the loop variable advances.
Wake(w) ==
  /\ pc[w] = "sleep"
  /\ attempt' = [attempt EXCEPT ![w] = @ + 1]
  /\ waited' = [waited EXCEPT ![w] = Append(@, sleep_for[w])]
  /\ sleep_for' = [sleep_for EXCEPT ![w] = 0]
  /\ pc' = [pc EXCEPT ![w] = "acquire"]
  /\ UNCHANGED <<now, port_files, wrappers, executor, received, cancels, msg, inflight,
                 acks, nacks, decoded, handler_calls, handler_result, raised,
                 cancelled, pool_used, modem_wrapper, tries>>
  /\ UNCHANGED legacyVars

\* A wait loop that may return None as soon as one wait is over.
GiveUpAfter_early(w, n) ==
  /\ pc[w] = "acquire"
  /\ attempt[w] >= 1
  /\ attempt' = [attempt EXCEPT ![w] = 0]
  /\ handler_result' = [handler_result EXCEPT ![w] = "false"]
  /\ Settle(w, BusAction(FALSE))
  /\ UNCHANGED <<poolVars, pool_used, sleep_for, modem_wrapper, received, cancels, msg,
                 decoded, handler_calls, raised, cancelled, tries, waited>>
  /\ UNCHANGED legacyVars

\* _wait_for_modem(n) returns None after the loop; __send_sms returns False
\* (MODEM_BUSY) and _process_message nacks.
GiveUpAfter(w, n) ==
  /\ pc[w] = "acquire"
  /\ attempt[w] >= n
  /\ attempt' = [attempt EXCEPT ![w] = 0]
  /\ handler_result' = [handler_result EXCEPT ![w] = "false"]
  /\ Settle(w, BusAction(FALSE))
  /\ UNCHANGED <<poolVars, pool_used, sleep_for, modem_wrapper, received, cancels, msg,
                 decoded, handler_calls, raised, cancelled, tries, waited>>
  /\ UNCHANGED legacyVars

\* __send_sms, lines 114-123, with the default max_attempts.
GiveUp(w) == GiveUpAfter(w, max_attempts)

\* modem_wrapper.send_sms returns the result of send_sms_sync; __send_sms turns it
\* into its boolean, drops modem_wrapper in its finally block and returns;
\* _process_message acks or nacks.
SendDone(w) ==
  /\ pc[w] = "send"
  /\ \E sendOk \in BOOLEAN :
       LET x    == modem_wrapper[w]
           info == port_files[x.port]
           ok   == SendSucceeds(info, sendOk)
           pf1  == [port_files EXCEPT ![x.port] = send_sms_sync(info, sendOk, now + 1)]
           ex1  == executor \ {x}
           mw1  == [modem_wrapper EXCEPT ![w] = NoWrapper]
       IN  /\ port_files' = Finalised(pf1, wrappers, mw1, ex1, now + 1)
           /\ wrappers' = wrappers \cap Referenced(mw1, ex1)
           /\ executor' = ex1
           /\ modem_wrapper' = mw1
           /\ handler_result' = [handler_result EXCEPT ![w] = IF ok THEN "true" ELSE "false"]
           /\ Settle(w, BusAction(ok))
  /\ now' = now + 1
  /\ UNCHANGED <<received, cancels, msg, decoded, handler_calls, raised, cancelled,
                 attempt, pool_used, sleep_for, tries, waited>>
  /\ UNCHANGED legacyVars

\* A work item whose awaiting task has gone finishes send_sms_sync in its thread;
\* the executor then drops the item and with it the closure holding the wrapper.
ThreadFinish(x) ==
  /\ x \in executor
  /\ \A w \in Workers : modem_wrapper[w] # x
  /\ \E sendOk \in BOOLEAN :
       LET pf1 == [port_files EXCEPT ![x.port] = send_sms_sync(@, sendOk, now + 1)]
           ex1 == executor \ {x}
       IN  /\ port_files' = Finalised(pf1, wrappers, modem_wrapper, ex1, now + 1)
           /\ wrappers' = wrappers \cap Referenced(modem_wrapper, ex1)
           /\ executor' = ex1
  /\ now' = now + 1
  /\ UNCHANGED <<busVars, taskVars>>
  /\ UNCHANGED legacyVars

\* task.cancel() while the listener awaits consumer.receive(): CancelledError is
\* no Exception, so it leaves _pulsar_listener through its finally block.
CancelReceive(w) ==
  /\ pc[w] = "receive"
  /\ cancels < MaxCancels
  /\ cancels' = cancels + 1
  /\ pc' = [pc EXCEPT ![w] = "stopped"]
  /\ UNCHANGED <<poolVars, taskVars, received, msg, inflight, acks, nacks, decoded,
                 handler_calls, handler_result, raised, cancelled>>
  /\ UNCHANGED legacyVars

\* task.cancel() during asyncio.sleep of _wait_for_modem: __send_sms catches
\* CancelledError (line 186), does not re-raise and returns result["success"].
CancelSleep(w) ==
  /\ pc[w] = "sleep"
  /\ cancels < MaxCancels
  /\ cancels' = cancels + 1
  /\ cancelled' = [cancelled EXCEPT ![w] = "sleep"]
  /\ attempt' = [attempt EXCEPT ![w] = 0]
  /\ sleep_for' = [sleep_for EXCEPT ![w] = 0]
  /\ handler_result' = [handler_result EXCEPT ![w] = "false"]
  /\ Settle(w, BusAction(FALSE))
  /\ UNCHANGED <<poolVars, pool_used, modem_wrapper, received, msg, decoded,
                 handler_calls, raised, tries, waited>>
  /\ UNCHANGED legacyVars

\* task.cancel() during run_in_executor: ModemWrapper.send_sms catches
\* CancelledError and returns a failure dict while the thread keeps running
\* _sync_send; __send_sms drops its own reference and returns False.
CancelSend(w) ==
  /\ pc[w] = "send"
  /\ cancels < MaxCancels
  /\ cancels' = cancels + 1
  /\ cancelled' = [cancelled EXCEPT ![w] = "send"]
  /\ LET mw1 == [modem_wrapper EXCEPT ![w] = NoWrapper]
     IN  /\ port_files' = Finalised(port_files, wrappers, mw1, executor, now)
         /\ wrappers' = wrappers \cap Referenced(mw1, executor)
         /\ modem_wrapper' = mw1
  /\ handler_result' = [handler_result EXCEPT ![w] = "false"]
  /\ Settle(w, BusAction(FALSE))
  /\ UNCHANGED <<executor, now, received, msg, decoded, handler_calls, raised,
                 attempt, pool_used, sleep_for, tries, waited>>
  /\ UNCHANGED legacyVars

Next ==
  \/ \E w \in Workers : Receive(w)
  \/ \E w \in Workers : CheckRedelivery(w)
  \/ \E w \in Workers : DecodePayload(w)
  \/ \E w \in Workers : CallHandler(w)
  \/ \E w \in Workers : TryNew(w)
  \/ \E w \in Workers : Wake(w)
  \/ \E w \in Workers : GiveUp(w)
  \/ \E w \in Workers : SendDone(w)
  \/ \E x \in executor : ThreadFinish(x)
  \/ \E w \in Workers : CancelReceive(w)
  \/ \E w \in Workers : CancelSleep(w)
  \/ \E w \in Workers : CancelSend(w)

Spec == Init /\ [][Next]_vars

\* The pool under load: well-formed first deliveries only, no shutdown.
PoolNext ==
  \/ \E w \in Workers : ReceiveRequest(w)
  \/ \E w \in Workers : CheckRedelivery(w)
  \/ \E w \in Workers : DecodePayload(w)
  \/ \E w \in Workers : CallHandler(w)
  \/ \E w \in Workers : TryNew(w)
  \/ \E w \in Workers : Wake(w)
  \/ \E w \in Workers : GiveUp(w)
  \/ \E w \in Workers : SendDone(w)

PoolSpec == Init /\ [][PoolNext]_vars

\* _wait_for_modem as a function of its parameter: the send task calls it with
\* max_attempts = LongMaxAttempts instead of the default.
WaitNext ==
  \/ \E w \in Workers : ReceiveRequest(w)
  \/ \E w \in Workers : CheckRedelivery(w)
  \/ \E w \in Workers : DecodePayload(w)
  \/ \E w \in Workers : CallHandler(w)
  \/ \E w \in Workers : TryNewUpTo(w, LongMaxAttempts)
  \/ \E w \in Workers : Wake(w)
  \/ \E w \in Workers : GiveUpAfter(w, LongMaxAttempts)
  \/ \E w \in Workers : SendDone(w)

WaitSpec == Init /\ [][WaitNext]_vars

\* ------------------------------------------- the legacy manager: selection
\* Any ModemManager.modems the discovery, the sends and the health checks can
\* have left behind, at the time of a send_sms call.
SelectInit ==
  /\ PipelineIdle
  /\ modems \in [Modems -> ModemInfos]
  /\ time_now = SelectTime
  /\ selected_modem = <<>>
  /\ SenderIdle
  /\ ComponentsIdle

\* ModemManager.send_sms, step 1: selected_modem = await _select_modem_for_sending().
SelectModem ==
  /\ selected_modem = <<>>
  /\ selected_modem' = <<select_modem_for_sending(modems, time_now)>>
  /\ UNCHANGED <<poolVars, busVars, taskVars, senderVars, componentVars, modems, time_now>>

SelectNext == SelectModem

SelectSpec == SelectInit /\ [][SelectNext]_vars

\* ------------------------------------ the legacy manager: sessions over time
\* ModemManager with the ports Modems discovered.  The GsmModem calls are
\* synchronous and an uncontended asyncio.Lock is taken without suspension, so
\* ManagedModem.send_sms, health_check and close run without interleaving; a
\* coroutine that awaits asyncio.gather is suspended while its tasks run, in
\* the order of their creation, and other tasks can run before it resumes.

\* GsmModem.signalStrength as a probe or a health check reads it: no signal, or some.
ProbedSignals == {0, 24}

\* _initialize_modem that registers the session whether or not the probe succeeded.
initialize_modem_keeping_failed(ms, p, ok, signal) ==
  [q \in DOMAIN ms \cup {p} |->
     IF q = p THEN [NewModemInfo EXCEPT !.signal_strength = signal] ELSE ms[q]]

\* _initialize_modem(port): self.modems when the task is done; ok says that
\* GsmModem.connect and the reads of the modem's properties raised nothing.
initialize_modem(ms, p, ok, signal) ==
  IF ok
  THEN [q \in DOMAIN ms \cup {p} |->
          IF q = p THEN [NewModemInfo EXCEPT !.signal_strength = signal] ELSE ms[q]]
  ELSE ms

\* ManagedModem.send_sms: self.info when the call returns at time t.
ManagedModem_send_sms(info, sendOk, t) ==
  IF sendOk
  THEN [info EXCEPT !.last_used = t, !.is_available = TRUE, !.error_count = 0,
                    !.in_use = FALSE]
  ELSE [info EXCEPT !.last_used = t, !.error_count = @ + 1, !.in_use = FALSE]

\* ManagedModem.health_check: self.info when the call returns.
ManagedModem_health_check(info, raises, signal) ==
  IF raises
  THEN [info EXCEPT !.is_available = FALSE, !.error_count = @ + 1]
  ELSE [info EXCEPT !.signal_strength = signal, !.is_available = signal > 0]

\* The sessions whose task of the pending gather has not run yet.
PendingTasks == {p \in DOMAIN modems : p >= job_next}

\* initialize, lines 185-196: a task per discovered port, then await gather.
InitializeStart ==
  /\ mgr_job = "new"
  /\ mgr_job' = "initialize"
  /\ job_next' = 1
  /\ UNCHANGED <<poolVars, busVars, taskVars, managerVars, senderVars, discVars, svcVars, outerVars>>
  /\ UNCHANGED <<initialized, probe, closed, last_send, faulted, healthy, ops>>

\* One _initialize_modem task.
InitializeModem ==
  /\ mgr_job = "initialize"
  /\ job_next <= NumModems
  /\ \E ok \in BOOLEAN, signal \in ProbedSignals :
       /\ modems' = initialize_modem(modems, job_next, ok, signal)
       /\ probe' = [probe EXCEPT ![job_next] = IF ok THEN "ok" ELSE "failed"]
  /\ job_next' = job_next + 1
  /\ UNCHANGED <<poolVars, busVars, taskVars, senderVars, discVars, svcVars, outerVars, time_now,
                 selected_modem>>
  /\ UNCHANGED <<initialized, closed, mgr_job, last_send, faulted, healthy, ops>>

\* initialize, lines 198-216: _initialized = successful_modems > 0, and with it
\* _log_modem_details -> get_status -> health_check, which starts a pass.
InitializeFinish ==
  /\ mgr_job = "initialize"
  /\ job_next > NumModems
  /\ initialized' = (DOMAIN modems # {})
  /\ mgr_job' = IF DOMAIN modems # {} THEN "health_check" ELSE "idle"
  /\ job_next' = 1
  /\ faulted' = {}
  /\ healthy' = {}
  /\ UNCHANGED <<poolVars, busVars, taskVars, managerVars, senderVars, discVars, svcVars, outerVars>>
  /\ UNCHANGED <<probe, closed, last_send, ops>>

\* ModemManager.send_sms: the selection and ManagedModem.send_sms.  A closed
\* GsmModem cannot send.
ManagerSendSms ==
  /\ ops < MaxOps
  /\ ops' = ops + 1
  /\ time_now' = time_now + 1
  /\ IF ~initialized
     THEN /\ last_send' = NoSend
          /\ UNCHANGED <<modems, selected_modem>>
     ELSE LET p == select_modem_for_sending(modems, time_now + 1)
          IN  /\ selected_modem' = <<p>>
              /\ IF p = NoPort
                 THEN /\ last_send' = NoSend
                      /\ UNCHANGED modems
                 ELSE \E sendOk \in (IF p \in closed THEN {FALSE} ELSE BOOLEAN) :
                        /\ modems' = [modems EXCEPT
                                        ![p] = ManagedModem_send_sms(@, sendOk, time_now + 1)]
                        /\ last_send' = [port |-> p, success |-> sendOk,
                                         error_count |-> modems[p].error_count,
                                         was_closed |-> p \in closed]
  /\ UNCHANGED <<poolVars, busVars, taskVars, senderVars, discVars, svcVars, outerVars>>
  /\ UNCHANGED <<initialized, probe, closed, mgr_job, job_next, faulted, healthy>>

\* ModemManager.health_check, lines 401-408: a task per session, then await gather.
HealthCheckStart ==
  /\ mgr_job = "idle"
  /\ DOMAIN modems # {}
  /\ ops < MaxOps
  /\ ops' = ops + 1
  /\ mgr_job' = "health_check"
  /\ job_next' = 1
  /\ faulted' = {}
  /\ healthy' = {}
  /\ UNCHANGED <<poolVars, busVars, taskVars, managerVars, senderVars, discVars, svcVars, outerVars>>
  /\ UNCHANGED <<initialized, probe, closed, last_send>>

\* ModemManager.health_check, lines 411-418: the loop that counts runs over
\* list(self.modems.values()), so its 'result' is a session, which is no
\* Exception and is true: healthy_count is the size of the pool.
is_healthy(ms) == Cardinality(DOMAIN ms) > 0

\* One ManagedModem.health_check task.
HealthCheckModem ==
  /\ mgr_job = "health_check"
  /\ PendingTasks # {}
  /\ LET p == Min(PendingTasks)
     IN  /\ \E raises \in BOOLEAN, signal \in ProbedSignals :
              /\ modems' = [modems EXCEPT ![p] = ManagedModem_health_check(@, raises, signal)]
              /\ faulted' = IF raises THEN faulted \cup {p} ELSE faulted
              /\ healthy' = IF ~raises /\ signal > 0 THEN healthy \cup {p} ELSE healthy \ {p}
         /\ job_next' = p + 1
  /\ UNCHANGED <<poolVars, busVars, taskVars, senderVars, discVars, svcVars, outerVars, time_now,
                 selected_modem>>
  /\ UNCHANGED <<initialized, probe, closed, mgr_job, last_send, ops>>

\* ModemManager.health_check, lines 410-423: the count of the healthy sessions.
\* The results of the gather are local to the call and gone when it returns.
HealthCheckFinish ==
  /\ mgr_job = "health_check"
  /\ PendingTasks = {}
  /\ mgr_job' = "idle"
  /\ healthy' = {}
  /\ UNCHANGED <<poolVars, busVars, taskVars, managerVars, senderVars, discVars, svcVars, outerVars>>
  /\ UNCHANGED <<initialized, probe, closed, job_next, last_send, faulted, ops>>

\* cleanup, lines 502-506: a task per session, then await gather.
CleanupStart ==
  /\ mgr_job = "idle"
  /\ mgr_job' = "cleanup"
  /\ job_next' = 1
  /\ UNCHANGED <<poolVars, busVars, taskVars, managerVars, senderVars, discVars, svcVars, outerVars>>
  /\ UNCHANGED <<initialized, probe, closed, last_send, faulted, healthy, ops>>

\* One ManagedModem.close task.
CloseModem ==
  /\ mgr_job = "cleanup"
  /\ PendingTasks # {}
  /\ LET p == Min(PendingTasks)
     IN  /\ closed' = closed \cup {p}
         /\ job_next' = p + 1
  /\ UNCHANGED <<poolVars, busVars, taskVars, managerVars, senderVars, discVars, svcVars, outerVars>>
  /\ UNCHANGED <<initialized, probe, mgr_job, last_send, faulted, healthy, ops>>

\* cleanup, lines 508-509: self.modems.clear(); self._initialized = False.
CleanupFinish ==
  /\ mgr_job = "cleanup"
  /\ PendingTasks = {}
  /\ modems' = [p \in {} |-> NewModemInfo]
  /\ initialized' = FALSE
  /\ mgr_job' = "cleaned"
  /\ UNCHANGED <<poolVars, busVars, taskVars, senderVars, discVars, svcVars, outerVars, time_now,
                 selected_modem>>
  /\ UNCHANGED <<probe, closed, job_next, last_send, faulted, healthy, ops>>

ManagerNext ==
  \/ InitializeStart
  \/ InitializeModem
  \/ InitializeFinish
  \/ ManagerSendSms
  \/ HealthCheckStart
  \/ HealthCheckModem
  \/ HealthCheckFinish
  \/ CleanupStart
  \/ CloseModem
  \/ CleanupFinish

ManagerSpec == Init /\ [][ManagerNext]_vars

\* ------------------------------------------- the pool: discovery of the ports
\* ConfigLoader.port_files, first read (src/common/config.py 88-138).
Scanned == 1..NumScanned
Imsis   == {1, 2}

\* What the scan finds on a port: whether GsmModem.connect succeeds, the IMSI and
\* the signal the modem reports, and whether its close() raises.
PortScans ==
  [connects : BOOLEAN, imsi : Imsis, signal : SignalValues, close_raises : BOOLEAN]

\* port_files, lines 99-112: the entries of tmp_ports before the deduplication.
Connected(ap) == {p \in DOMAIN ap : ap[p].connects}

\* port_files, lines 114-127: port_list of the port's IMSI after its sort by
\* signal, descending and stable, [0]: the first port, in scan order, with the
\* highest signal.
FirstOfImsi(ap, i) ==
  LET port_list == {p \in Connected(ap) : ap[p].imsi = i}
  IN  Min({p \in port_list : \A q \in port_list : ap[p].signal >= ap[q].signal})

\* port_files, lines 127-133: the ports of port_list[1:] whose close() returned.
PortsToRemove(ap) ==
  {p \in Connected(ap) : p # FirstOfImsi(ap, ap[p].imsi) /\ ~ap[p].close_raises}

DiscoverInit ==
  /\ PipelineIdle
  /\ ManagerIdle
  /\ SenderIdle
  /\ ManagerNew
  /\ ServiceNew
  /\ OuterNew
  /\ all_ports \in [Scanned -> PortScans]
  /\ tmp_ports = {}
  /\ modem_closed = {}
  /\ scan_pc = "new"

\* The first read of the property port_files.
ReadPortFiles ==
  /\ scan_pc = "new"
  /\ modem_closed' = PortsToRemove(all_ports)
  /\ tmp_ports' = Connected(all_ports) \ PortsToRemove(all_ports)
  /\ scan_pc' = "done"
  /\ UNCHANGED <<poolVars, busVars, taskVars, managerVars, senderVars, lifeVars, svcVars, outerVars,
                 all_ports>>

DiscoverNext == ReadPortFiles

DiscoverSpec == DiscoverInit /\ [][DiscoverNext]_vars

\* ------------------------------------------- the gRPC service: start and stop
\* SMSMicroservice of src/main.py, driven by main_async.  steps records what
\* was done: "load_config", "init_pool", "publish_schema", "start_server",
\* "start_health" during start(); "cancel_health", "cancel_main",
\* "retract_schema", "stop_server", "close_pool" during stop(); and
\* "request_cancel_main", "request_cancel_health" for the cancel() calls of
\* request_shutdown().  Task.cancel() on a task that is done does nothing.
Cancel(task) == IF task = "done" THEN "done" ELSE "cancelling"

\* request_shutdown whose test of the event never finds it set.
shutdown_requested_never(ev) == FALSE

\* request_shutdown, line 260: self._shutdown_event.is_set().
shutdown_requested(ev) == ev

\* start() that goes on after a failed SerialManager.initialize().
start_after_pool_ignoring_failure(ok) == "register"

\* start(), lines 57-60: return False unless serial_manager.initialize() succeeded.
start_after_pool(ok) == IF ok THEN "register" ELSE "exited"

\* start() returns False and main_async exits with status 1 (lines 351-354).
StartFails(cause) ==
  /\ start_result' = "false"
  /\ fail_cause' = cause
  /\ exit_code' = <<1>>
  /\ svc_pc' = "exited"

\* start(), step 1: ConfigManager.load_config.
LoadConfig ==
  /\ svc_pc = "start"
  /\ steps' = Append(steps, "load_config")
  /\ \E ok \in BOOLEAN :
       IF ok THEN /\ svc_pc' = "init_pool"
                  /\ UNCHANGED <<start_result, fail_cause, exit_code>>
             ELSE StartFails("config")
  /\ UNCHANGED <<poolVars, busVars, taskVars, managerVars, senderVars, lifeVars, discVars, outerVars>>
  /\ UNCHANGED <<shutting_down, shutdown_event, health_task, main_task, consul_client,
                 grpc_server, serial_manager, stops, signals>>

\* start(), step 4: SerialManager(...).initialize(), which is False when no modem
\* was detected or none connected.
InitSerialManager ==
  /\ svc_pc = "init_pool"
  /\ steps' = Append(steps, "init_pool")
  /\ \E ok \in BOOLEAN :
       /\ serial_manager' = IF ok THEN "ready" ELSE "created"
       /\ IF start_after_pool(ok) = "exited"
          THEN StartFails("pool")
          ELSE /\ svc_pc' = start_after_pool(ok)
               /\ UNCHANGED <<start_result, fail_cause, exit_code>>
  /\ UNCHANGED <<poolVars, busVars, taskVars, managerVars, senderVars, lifeVars, discVars, outerVars>>
  /\ UNCHANGED <<shutting_down, shutdown_event, health_task, main_task, consul_client,
                 grpc_server, stops, signals>>

\* start(), step 6: with a Consul host configured, register_service publishes
\* the service and its schema; a failed registration is logged and start goes on.
RegisterConsul ==
  /\ svc_pc = "register"
  /\ \E outcome \in {"skipped", "registered", "failed"} :
       /\ consul_client' = CASE outcome = "skipped"    -> "none"
                             [] outcome = "registered" -> "registered"
                             [] outcome = "failed"     -> "unregistered"
       /\ steps' = IF outcome = "registered" THEN Append(steps, "publish_schema") ELSE steps
  /\ svc_pc' = "grpc"
  /\ UNCHANGED <<poolVars, busVars, taskVars, managerVars, senderVars, lifeVars, discVars, outerVars>>
  /\ UNCHANGED <<start_result, fail_cause, exit_code, shutting_down, shutdown_event,
                 health_task, main_task, grpc_server, serial_manager, stops, signals>>

\* start(), step 7: grpc.aio.server(...), add_insecure_port, await start(); an
\* exception is caught at line 166 and start returns False.
StartServer ==
  /\ svc_pc = "grpc"
  /\ \E ok \in BOOLEAN :
       IF ok THEN /\ grpc_server' = "serving"
                  /\ steps' = Append(steps, "start_server")
                  /\ svc_pc' = "health"
                  /\ UNCHANGED <<start_result, fail_cause, exit_code>>
             ELSE /\ grpc_server' = "created"
                  /\ UNCHANGED steps
                  /\ StartFails("other")
  /\ UNCHANGED <<poolVars, busVars, taskVars, managerVars, senderVars, lifeVars, discVars, outerVars>>
  /\ UNCHANGED <<shutting_down, shutdown_event, health_task, main_task, consul_client,
                 serial_manager, stops, signals>>

\* start(), step 8, returns True; main_async creates the task of run() and
\* awaits wait_for_shutdown().  run() sets _main_task in its first step, which
\* precedes every later callback; with the event already set main_async goes
\* on to stop() and run() starts while stop() awaits the health task.
StartHealthTask ==
  /\ svc_pc = "health"
  /\ health_task' = "running"
  /\ steps' = Append(steps, "start_health")
  /\ start_result' = "true"
  /\ main_task' = IF shutdown_event THEN "created" ELSE "running"
  /\ svc_pc' = "waiting"
  /\ UNCHANGED <<poolVars, busVars, taskVars, managerVars, senderVars, lifeVars, discVars, outerVars>>
  /\ UNCHANGED <<fail_cause, exit_code, shutting_down, shutdown_event, consul_client,
                 grpc_server, serial_manager, stops, signals>>

\* self._main_task is set once run() has started and None again when it ended.
HasMainTask == main_task \notin {"none", "created"}

\* request_shutdown(), called by the signal handler while the loop runs.
RequestShutdown ==
  /\ svc_pc \notin {"exited", "stopped"}
  /\ signals < MaxSignals
  /\ signals' = signals + 1
  /\ IF shutdown_requested(shutdown_event)
     THEN UNCHANGED <<shutdown_event, main_task, health_task, steps>>
     ELSE /\ shutdown_event' = TRUE
          /\ main_task' = IF HasMainTask THEN Cancel(main_task) ELSE main_task
          /\ health_task' = IF health_task # "none" THEN Cancel(health_task) ELSE health_task
          /\ steps' = steps \o (IF HasMainTask THEN <<"request_cancel_main">> ELSE <<>>)
                            \o (IF health_task # "none" THEN <<"request_cancel_health">> ELSE <<>>)
  /\ UNCHANGED <<poolVars, busVars, taskVars, managerVars, senderVars, lifeVars, discVars, outerVars>>
  /\ UNCHANGED <<svc_pc, start_result, fail_cause, exit_code, shutting_down, consul_client,
                 grpc_server, serial_manager, stops>>

\* _health_check_task catches the CancelledError and ends.
HealthTaskEnds ==
  /\ health_task = "cancelling"
  /\ health_task' = "done"
  /\ UNCHANGED <<poolVars, busVars, taskVars, managerVars, senderVars, lifeVars, discVars, outerVars>>
  /\ UNCHANGED <<svc_pc, steps, start_result, fail_cause, exit_code, shutting_down,
                 shutdown_event, main_task, consul_client, grpc_server, serial_manager,
                 stops, signals>>

\* run(), line 197: the first step of the task sets _main_task.
RunStarts ==
  /\ main_task = "created"
  /\ svc_pc = "stop_health"
  /\ main_task' = "running"
  /\ UNCHANGED <<poolVars, busVars, taskVars, managerVars, senderVars, lifeVars, discVars, outerVars>>
  /\ UNCHANGED <<svc_pc, steps, start_result, fail_cause, exit_code, shutting_down,
                 shutdown_event, health_task, consul_client, grpc_server, serial_manager,
                 stops, signals>>

\* run() is cancelled; its finally block sets _main_task = None.
MainTaskEnds ==
  /\ main_task = "cancelling"
  /\ main_task' = "none"
  /\ UNCHANGED <<poolVars, busVars, taskVars, managerVars, senderVars, lifeVars, discVars, outerVars>>
  /\ UNCHANGED <<svc_pc, steps, start_result, fail_cause, exit_code, shutting_down,
                 shutdown_event, health_task, consul_client, grpc_server, serial_manager,
                 stops, signals>>

\* stop(), lines 210-222: wait_for_shutdown() has returned; the flag is set, the
\* health task is cancelled and awaited.
StopBegin ==
  /\ svc_pc = "waiting"
  /\ shutdown_event
  /\ ~shutting_down
  /\ stops < MaxStops
  /\ stops' = stops + 1
  /\ shutting_down' = TRUE
  /\ health_task' = Cancel(health_task)
  /\ steps' = Append(steps, "cancel_health")
  /\ svc_pc' = "stop_health"
  /\ UNCHANGED <<poolVars, busVars, taskVars, managerVars, senderVars, lifeVars, discVars, outerVars>>
  /\ UNCHANGED <<start_result, fail_cause, exit_code, shutdown_event, main_task,
                 consul_client, grpc_server, serial_manager, signals>>

\* stop(), lines 210-211: a further invocation returns at once.
StopAgain ==
  /\ shutting_down
  /\ stops < MaxStops
  /\ stops' = stops + 1
  /\ UNCHANGED <<poolVars, busVars, taskVars, managerVars, senderVars, lifeVars, discVars, outerVars>>
  /\ UNCHANGED <<svc_pc, steps, start_result, fail_cause, exit_code, shutting_down,
                 shutdown_event, health_task, main_task, consul_client, grpc_server,
                 serial_manager, signals>>

\* stop(), lines 224-230: the task of run(), if it has started, is cancelled and awaited.
StopCancelMain ==
  /\ svc_pc = "stop_health"
  /\ health_task = "done"
  /\ main_task # "created"
  /\ main_task' = IF HasMainTask THEN Cancel(main_task) ELSE main_task
  /\ steps' = IF HasMainTask THEN Append(steps, "cancel_main") ELSE steps
  /\ svc_pc' = "stop_main"
  /\ UNCHANGED <<poolVars, busVars, taskVars, managerVars, senderVars, lifeVars, discVars, outerVars>>
  /\ UNCHANGED <<start_result, fail_cause, exit_code, shutting_down, shutdown_event,
                 health_task, consul_client, grpc_server, serial_manager, stops, signals>>

\* stop(), lines 232-246: deregister_service, which does something only while
\* the client is registered, then grpc_server.stop(grace=0); an exception of
\* either is logged and stop goes on.
StopDeregisterAndStopServer ==
  /\ svc_pc = "stop_main"
  /\ main_task = "none"
  /\ \E deregistered \in BOOLEAN, stopped \in BOOLEAN :
       /\ consul_client' = IF consul_client = "registered" /\ deregistered
                           THEN "unregistered" ELSE consul_client
       /\ grpc_server' = IF stopped THEN "stopped" ELSE grpc_server
  /\ steps' = steps \o (IF consul_client = "registered" THEN <<"retract_schema">> ELSE <<>>)
                    \o <<"stop_server">>
  /\ svc_pc' = "stop_pool"
  /\ UNCHANGED <<poolVars, busVars, taskVars, managerVars, senderVars, lifeVars, discVars, outerVars>>
  /\ UNCHANGED <<start_result, fail_cause, exit_code, shutting_down, shutdown_event,
                 health_task, main_task, serial_manager, stops, signals>>

\* stop(), lines 248-256: serial_manager.cleanup(); main_async then awaits the
\* task of run() and the process ends with status 0.
StopCleanup ==
  /\ svc_pc = "stop_pool"
  /\ serial_manager' = "cleaned"
  /\ steps' = Append(steps, "close_pool")
  /\ exit_code' = <<0>>
  /\ svc_pc' = "stopped"
  /\ UNCHANGED <<poolVars, busVars, taskVars, managerVars, senderVars, lifeVars, discVars, outerVars>>
  /\ UNCHANGED <<start_result, fail_cause, shutting_down, shutdown_event, health_task,
                 main_task, consul_client, grpc_server, stops, signals>>

ServiceNext ==
  \/ LoadConfig
  \/ InitSerialManager
  \/ RegisterConsul
  \/ StartServer
  \/ StartHealthTask
  \/ RequestShutdown
  \/ HealthTaskEnds
  \/ RunStarts
  \/ MainTaskEnds
  \/ StopBegin
  \/ StopAgain
  \/ StopCancelMain
  \/ StopDeregisterAndStopServer
  \/ StopCleanup

ServiceSpec == Init /\ [][ServiceNext]_vars

\* ---------------------------------------- the schema key in Consul's KV store
\* Instances of the service, each a process with one ConsulClient, registered
\* under the same service_name and so under the same kv_path.  A step of an
\* instance is one call of the Consul client library with the code up to the
\* next one; the calls of different instances interleave.  Every call either
\* returns or raises.  A TTL check is critical until its first ttl_pass and
\* again once 30 seconds pass without one; a service without checks passes.
Instances == 1..NumInstances

\* Everything the Consul steps leave alone.
notKvVars == <<innerVars, msgVars, atVars, edgeVars>>

\* health.service(service_name, passing=True) without the caller's own entry
\* (lines 193-202).
active_services(i) == {j \in Instances \ {i} : catalog[j] = "passing"}

\* register_service, lines 71-107: agent.check.register.
RegisterCheck(i) ==
  /\ c_pc[i] = "new"
  /\ \E ok \in BOOLEAN :
       c_pc' = [c_pc EXCEPT ![i] = IF ok THEN "service_register" ELSE "live"]
  /\ UNCHANGED <<catalog, kv, registered, kv_registered, dereg_raised>>
  /\ UNCHANGED notKvVars

\* register_service, lines 110-126: agent.service.register, self.registered = True.
RegisterService(i) ==
  /\ c_pc[i] = "service_register"
  /\ \E ok \in BOOLEAN :
       IF ok THEN /\ catalog' = [catalog EXCEPT ![i] = "critical"]
                  /\ registered' = [registered EXCEPT ![i] = TRUE]
                  /\ c_pc' = [c_pc EXCEPT ![i] = "ttl_pass"]
             ELSE /\ c_pc' = [c_pc EXCEPT ![i] = "live"]
                  /\ UNCHANGED <<catalog, registered>>
  /\ UNCHANGED <<kv, kv_registered, dereg_raised>>
  /\ UNCHANGED notKvVars

\* register_service, line 129: agent.check.ttl_pass; an exception makes
\* register_service return False with self.registered left True.
TtlPass(i) ==
  /\ c_pc[i] = "ttl_pass"
  /\ \E ok \in BOOLEAN :
       IF ok THEN /\ catalog' = [catalog EXCEPT ![i] = "passing"]
                  /\ c_pc' = [c_pc EXCEPT ![i] = "kv_get"]
             ELSE /\ c_pc' = [c_pc EXCEPT ![i] = "live"]
                  /\ UNCHANGED catalog
  /\ UNCHANGED <<kv, registered, kv_registered, dereg_raised>>
  /\ UNCHANGED notKvVars

\* _register_kv, line 143: kv.get; its exception is logged and swallowed.
KvGet(i) ==
  /\ c_pc[i] = "kv_get"
  /\ \E ok \in BOOLEAN :
       c_pc' = [c_pc EXCEPT ![i] = IF ok THEN "kv_put" ELSE "live"]
  /\ UNCHANGED <<catalog, kv, registered, kv_registered, dereg_raised>>
  /\ UNCHANGED notKvVars

\* _register_kv, lines 146-157: kv.put, self.kv_registered = True.
KvPut(i) ==
  /\ c_pc[i] = "kv_put"
  /\ \E ok \in BOOLEAN :
       IF ok THEN /\ kv' = TRUE
                  /\ kv_registered' = [kv_registered EXCEPT ![i] = TRUE]
             ELSE UNCHANGED <<kv, kv_registered>>
  /\ c_pc' = [c_pc EXCEPT ![i] = "live"]
  /\ UNCHANGED <<catalog, registered, dereg_raised>>
  /\ UNCHANGED notKvVars

\* The TTL of 30 seconds (line 103) runs out: nothing calls keep_alive, so no
\* ttl_pass follows the one of register_service.
TtlExpires(i) ==
  /\ catalog[i] = "passing"
  /\ c_pc[i] \in {"kv_get", "kv_put", "live"}
  /\ catalog' = [catalog EXCEPT ![i] = "critical"]
  /\ UNCHANGED <<kv, c_pc, registered, kv_registered, dereg_raised>>
  /\ UNCHANGED notKvVars

\* deregister_service, lines 164-170: return at once unless registered, else
\* agent.check.deregister.
DeregisterCheck(i) ==
  /\ c_pc[i] = "live"
  /\ IF ~registered[i]
     THEN /\ c_pc' = [c_pc EXCEPT ![i] = "down"]
          /\ UNCHANGED <<catalog, dereg_raised>>
     ELSE \E ok \in BOOLEAN :
            IF ok THEN /\ catalog' = [catalog EXCEPT ![i] = "passing"]
                       /\ c_pc' = [c_pc EXCEPT ![i] = "service_deregister"]
                       /\ UNCHANGED dereg_raised
                  ELSE /\ c_pc' = [c_pc EXCEPT ![i] = "down"]
                       /\ dereg_raised' = [dereg_raised EXCEPT ![i] = TRUE]
                       /\ UNCHANGED catalog
  /\ UNCHANGED <<kv, registered, kv_registered>>
  /\ UNCHANGED notKvVars

\* deregister_service, lines 173-181, and _delete_kv_if_no_instances, lines
\* 189-190: agent.service.deregister; without kv_registered nothing is queried.
DeregisterService(i) ==
  /\ c_pc[i] = "service_deregister"
  /\ \E ok \in BOOLEAN :
       IF ok THEN /\ catalog' = [catalog EXCEPT ![i] = "absent"]
                  /\ IF kv_registered[i]
                     THEN /\ c_pc' = [c_pc EXCEPT ![i] = "health_service"]
                          /\ UNCHANGED registered
                     ELSE /\ c_pc' = [c_pc EXCEPT ![i] = "down"]
                          /\ registered' = [registered EXCEPT ![i] = FALSE]
                  /\ UNCHANGED dereg_raised
             ELSE /\ c_pc' = [c_pc EXCEPT ![i] = "down"]
                  /\ dereg_raised' = [dereg_raised EXCEPT ![i] = TRUE]
                  /\ UNCHANGED <<catalog, registered>>
  /\ UNCHANGED <<kv, kv_registered>>
  /\ UNCHANGED notKvVars

\* _delete_kv_if_no_instances, lines 192-204: health.service and the filter;
\* an exception is logged and swallowed.
HealthService(i) ==
  /\ c_pc[i] = "health_service"
  /\ \E ok \in BOOLEAN :
       IF ok /\ active_services(i) = {}
       THEN /\ c_pc' = [c_pc EXCEPT ![i] = "kv_delete"]
            /\ UNCHANGED <<registered, dereg_raised>>
       ELSE /\ c_pc' = [c_pc EXCEPT ![i] = "down"]
            /\ registered' = [registered EXCEPT ![i] = FALSE]
            /\ dereg_raised' = [dereg_raised EXCEPT ![i] = ~ok]
  /\ UNCHANGED <<catalog, kv, kv_registered>>
  /\ UNCHANGED notKvVars

\* _delete_kv_if_no_instances, lines 205-210: kv.delete, then lines 179-181.
KvDelete(i) ==
  /\ c_pc[i] = "kv_delete"
  /\ \E ok \in BOOLEAN :
       IF ok THEN /\ kv' = FALSE
                  /\ kv_registered' = [kv_registered EXCEPT ![i] = FALSE]
                  /\ UNCHANGED dereg_raised
             ELSE /\ dereg_raised' = [dereg_raised EXCEPT ![i] = TRUE]
                  /\ UNCHANGED <<kv, kv_registered>>
  /\ registered' = [registered EXCEPT ![i] = FALSE]
  /\ c_pc' = [c_pc EXCEPT ![i] = "down"]
  /\ UNCHANGED catalog
  /\ UNCHANGED notKvVars

ConsulNext ==
  \/ \E i \in Instances : RegisterCheck(i)
  \/ \E i \in Instances : RegisterService(i)
  \/ \E i \in Instances : TtlPass(i)
  \/ \E i \in Instances : KvGet(i)
  \/ \E i \in Instances : KvPut(i)
  \/ \E i \in Instances : TtlExpires(i)
  \/ \E i \in Instances : DeregisterCheck(i)
  \/ \E i \in Instances : DeregisterService(i)
  \/ \E i \in Instances : HealthService(i)
  \/ \E i \in Instances : KvDelete(i)

ConsulSpec == Init /\ [][ConsulNext]_vars

\* ------------------------------------------------ SMSMessage.from_dict
\* A phone is a sequence of characters; the ones that matter to from_dict are
\* white space, '+' and the rest.
PhoneChars == {" ", "+", "1"}

RECURSIVE PhonesUpTo(_)
PhonesUpTo(n) ==
  IF n = 0 THEN {<<>>}
  ELSE LET shorter == PhonesUpTo(n - 1)
       IN  shorter \cup {Append(p, c) : p \in {q \in shorter : Len(q) = n - 1}, c \in PhoneChars}

\* The payloads: any of the three keys may be missing.
JsonDicts ==
  {[keys |-> ks, phone |-> ph, content |-> co, metadata |-> me] :
     ks \in SUBSET {"phone", "content", "metadata"},
     ph \in PhonesUpTo(MaxPhone), co \in {"", "hi"}, me \in {"{}", "{k: v}"}}

\* A payload lists under a missing key what the code takes in its place.
WellFormed(d) ==
  /\ "phone" \notin d.keys => d.phone = <<>>
  /\ "content" \notin d.keys => d.content = ""
  /\ "metadata" \notin d.keys => d.metadata = "{}"

RECURSIVE lstrip(_)
lstrip(p) == IF p # <<>> /\ Head(p) = " " THEN lstrip(Tail(p)) ELSE p

RECURSIVE rstrip(_)
rstrip(p) ==
  IF p # <<>> /\ p[Len(p)] = " " THEN rstrip(SubSeq(p, 1, Len(p) - 1)) ELSE p

\* str.strip()
strip(p) == rstrip(lstrip(p))

\* str.startswith('+')
startswith_plus(p) == p # <<>> /\ Head(p) = "+"

CountryCode == <<"+", "8", "6">>

\* from_dict that tests and keeps the phone as it came.
from_dict_unstripped(d) ==
  IF "content" \notin d.keys
  THEN [raised |-> "TypeError"]
  ELSE [raised |-> "none",
        phone |-> IF startswith_plus(d.phone) THEN d.phone ELSE CountryCode \o d.phone,
        content |-> d.content,
        metadata |-> d.metadata]

\* SMSMessage.from_dict, lines 18-26: data.get('phone', '').strip(), the prefix,
\* then cls(**...) with the keys that are fields; content has no default,
\* metadata defaults to {}.
from_dict(d) ==
  LET phone == strip(d.phone)
  IN  IF "content" \notin d.keys
      THEN [raised |-> "TypeError"]
      ELSE [raised |-> "none",
            phone |-> IF startswith_plus(phone) THEN phone ELSE CountryCode \o phone,
            content |-> d.content,
            metadata |-> d.metadata]

\* Any payload the bus can deliver as a JSON object.
MessageInit ==
  /\ PipelineIdle
  /\ ManagerIdle
  /\ SenderIdle
  /\ ManagerNew
  /\ DiscoveryNew
  /\ ServiceNew
  /\ ConsulNew
  /\ DialogueNew
  /\ EdgeNew
  /\ json_data \in {d \in JsonDicts : WellFormed(d)}
  /\ message = <<>>

FromDict ==
  /\ message = <<>>
  /\ message' = <<from_dict(json_data)>>
  /\ UNCHANGED <<innerVars, kvVars, atVars, edgeVars, json_data>>

MessageNext == FromDict

MessageSpec == MessageInit /\ [][MessageNext]_vars

\* ------------------------------------------- the SMS sender: the AT dialogue
\* One call of _send_encoded_sms (a body of at most 70 characters) or of
\* _send_pdu_sms (a segment of a longer body), from the open-port test to the
\* SMSResult.  A step is the code between two suspension points.  Every write
\* and read of the serial port either returns or raises.
max_wait_time == 15

\* send_sms, lines 190-197: the path taken for a body of n characters.
DialoguePath(n) == IF n <= SingleLimit THEN "text" ELSE "pdu"

\* The _send_at_command calls that precede AT+CMGS.
SetupCommands(path) ==
  IF path = "text" THEN <<"AT", "ATE0", "AT+CMGF=1", "AT+CSCS=UCS2">>
  ELSE <<"AT", "ATE0", "AT+CMGF=0">>

\* What one read_all() within _wait_for_response can give.
Chunks == {"", " ", "NO CARRIER", "+CMGS: 5", "OK", "ERROR", "+CMS ERROR: 500"}

\* '+CMGS:' in response, 'OK' in response, 'ERROR' in response.
HasCmgs(r)  == "+CMGS: 5" \in r
HasOk(r)    == "OK" \in r
HasError(r) == "ERROR" \in r \/ "+CMS ERROR: 500" \in r

\* response and len(response.strip()) > 0
NonBlank(r) == r \ {"", " "} # {}

SMSResult(success, status_message) == [success |-> success, status_message |-> status_message]

\* _parse_response, lines 490-568.
parse_response(r) ==
  CASE HasCmgs(r)  -> SMSResult(TRUE, "sent")
    [] ~HasCmgs(r) /\ HasOk(r) -> SMSResult(TRUE, "sent (OK)")
    [] ~HasCmgs(r) /\ ~HasOk(r) /\ HasError(r) -> SMSResult(FALSE, "send failed")
    [] OTHER -> IF NonBlank(r) THEN SMSResult(TRUE, "sent (has response)")
                ELSE SMSResult(FALSE, "timeout")

\* A dialogue that takes the prompt for granted.
no_prompt_ignored(seen) == FALSE

\* Lines 304 and 308 (413 and 419): ">" not in response.
no_prompt(seen) == ~seen

\* The dialogue returns res.
DialogueReturns(res) ==
  /\ dlg_result' = <<res>>
  /\ dlg_pc' = "done"

\* A request of any length on a sender whose port is open or not.
DialogueInit ==
  /\ PipelineIdle
  /\ ManagerIdle
  /\ SenderIdle
  /\ ManagerNew
  /\ DiscoveryNew
  /\ ServiceNew
  /\ ConsulNew
  /\ MessageNew
  /\ EdgeNew
  /\ body_chars \in {0, 1, SingleLimit + 1}
  /\ serial_open \in BOOLEAN
  /\ dlg_pc = "start"
  /\ cmd_ix = 0
  /\ line = <<>>
  /\ prompt_reads = 0
  /\ prompt = FALSE
  /\ total_wait_time = 0
  /\ final_response = {}
  /\ dlg_result = <<>>

\* Lines 275-283 (363-371): if not self.serial or not self.serial.is_open.
CheckSerial ==
  /\ dlg_pc = "start"
  /\ IF serial_open
     THEN /\ dlg_pc' = "setup"
          /\ UNCHANGED dlg_result
     ELSE DialogueReturns(SMSResult(FALSE, "not connected"))
  /\ UNCHANGED <<body_chars, serial_open, cmd_ix, line, prompt_reads, prompt,
                 total_wait_time, final_response>>
  /\ UNCHANGED <<innerVars, kvVars, msgVars, edgeVars>>

\* One _send_at_command (lines 581-597) of lines 287-290 (377-397): the write
\* or the read may raise, which the method turns into an answer without OK;
\* _send_pdu_sms gives up when the answer to AT+CMGF=0 has no OK.
SendAtCommand ==
  /\ dlg_pc = "setup"
  /\ LET cmds == SetupCommands(DialoguePath(body_chars))
         cmd  == cmds[cmd_ix + 1]
     IN  \E answer \in {"OK", "other", "write raised", "read raised"} :
           /\ line' = IF answer = "write raised" THEN line ELSE Append(line, cmd)
           /\ cmd_ix' = cmd_ix + 1
           /\ IF cmd = "AT+CMGF=0" /\ answer # "OK"
              THEN DialogueReturns(SMSResult(FALSE, "PDU mode failed"))
              ELSE /\ dlg_pc' = IF cmd_ix + 1 = Len(cmds) THEN "cmgs" ELSE "setup"
                   /\ UNCHANGED dlg_result
  /\ UNCHANGED <<body_chars, serial_open, prompt_reads, prompt, total_wait_time,
                 final_response>>
  /\ UNCHANGED <<innerVars, kvVars, msgVars, edgeVars>>

\* Lines 293-299 (400-406): the buffers are reset and AT+CMGS is written; an
\* exception ends the dialogue in the except branch.
WriteCmgs ==
  /\ dlg_pc = "cmgs"
  /\ \E ok \in BOOLEAN :
       IF ok THEN /\ line' = Append(line, "AT+CMGS")
                  /\ dlg_pc' = "prompt"
                  /\ UNCHANGED dlg_result
             ELSE /\ DialogueReturns(SMSResult(FALSE, "exception"))
                  /\ UNCHANGED line
  /\ UNCHANGED <<body_chars, serial_open, cmd_ix, prompt_reads, prompt, total_wait_time,
                 final_response>>
  /\ UNCHANGED <<innerVars, kvVars, msgVars, edgeVars>>

\* Lines 300-318 (407-429): read_all() after one second and, without '>', once
\* more after another; without '>' in both the dialogue returns a failure.
ReadPrompt ==
  /\ dlg_pc = "prompt"
  /\ \E answer \in {"prompt", "other", "raised"} :
       LET seen == prompt \/ answer = "prompt"
       IN  /\ prompt_reads' = prompt_reads + 1
           /\ prompt' = seen
           /\ IF answer = "raised"
              THEN DialogueReturns(SMSResult(FALSE, "exception"))
              ELSE IF no_prompt(seen)
                   THEN IF prompt_reads = 0
                        THEN /\ dlg_pc' = "prompt"
                             /\ UNCHANGED dlg_result
                        ELSE DialogueReturns(SMSResult(FALSE, "not ready"))
                   ELSE /\ dlg_pc' = "payload"
                        /\ UNCHANGED dlg_result
  /\ UNCHANGED <<body_chars, serial_open, cmd_ix, line, total_wait_time, final_response>>
  /\ UNCHANGED <<innerVars, kvVars, msgVars, edgeVars>>

\* Lines 321-324 (435-437): the payload is written.
WritePayload ==
  /\ dlg_pc = "payload"
  /\ \E ok \in BOOLEAN :
       IF ok THEN /\ line' = Append(line, "payload")
                  /\ dlg_pc' = "ctrl_z"
                  /\ UNCHANGED dlg_result
             ELSE /\ DialogueReturns(SMSResult(FALSE, "exception"))
                  /\ UNCHANGED line
  /\ UNCHANGED <<body_chars, serial_open, cmd_ix, prompt_reads, prompt, total_wait_time,
                 final_response>>
  /\ UNCHANGED <<innerVars, kvVars, msgVars, edgeVars>>

\* Line 325 (440): serial.write(b'\x1A').
WriteCtrlZ ==
  /\ dlg_pc = "ctrl_z"
  /\ \E ok \in BOOLEAN :
       IF ok THEN /\ line' = Append(line, "ctrl_z")
                  /\ dlg_pc' = "wait"
                  /\ UNCHANGED dlg_result
             ELSE /\ DialogueReturns(SMSResult(FALSE, "exception"))
                  /\ UNCHANGED line
  /\ UNCHANGED <<body_chars, serial_open, cmd_ix, prompt_reads, prompt, total_wait_time,
                 final_response>>
  /\ UNCHANGED <<innerVars, kvVars, msgVars, edgeVars>>

\* _wait_for_response, lines 474-486: one turn of the loop.
WaitForResponse ==
  /\ dlg_pc = "wait"
  /\ total_wait_time < max_wait_time
  /\ total_wait_time' = total_wait_time + 1
  /\ \/ \E chunk \in Chunks :
          LET r == IF chunk # "" THEN final_response \cup {chunk} ELSE final_response
          IN  /\ final_response' = r
              /\ dlg_pc' = IF \/ chunk # "" /\ (HasCmgs(r) \/ HasOk(r) \/ HasError(r))
                              \/ total_wait_time + 1 = max_wait_time
                           THEN "parse" ELSE "wait"
              /\ UNCHANGED dlg_result
     \/ /\ DialogueReturns(SMSResult(FALSE, "exception"))
        /\ UNCHANGED final_response
  /\ UNCHANGED <<body_chars, serial_open, cmd_ix, line, prompt_reads, prompt>>
  /\ UNCHANGED <<innerVars, kvVars, msgVars, edgeVars>>

\* Lines 330-332 (450-455): return self._parse_response(...).
ParseResponse ==
  /\ dlg_pc = "parse"
  /\ DialogueReturns(parse_response(final_response))
  /\ UNCHANGED <<body_chars, serial_open, cmd_ix, line, prompt_reads, prompt,
                 total_wait_time, final_response>>
  /\ UNCHANGED <<innerVars, kvVars, msgVars, edgeVars>>

DialogueNext ==
  \/ CheckSerial
  \/ SendAtCommand
  \/ WriteCmgs
  \/ ReadPrompt
  \/ WritePayload
  \/ WriteCtrlZ
  \/ WaitForResponse
  \/ ParseResponse

DialogueSpec == DialogueInit /\ [][DialogueNext]_vars

\* ------------------------------------------- PulsarService: start and stop
\* listener_task is the await the task of _pulsar_listener is suspended at:
\* "pending" before its first step, "client" (pulsar.Client), "subscribe",
\* "receive", "process" (_process_message), "close_consumer" and "close_client"
\* (the two closes of _cleanup), "done".  Every call that runs in the executor
\* may return or raise.  task.cancel() sets must_cancel; CancelledError is
\* raised at the await the task is suspended at, in place of its result.
StopCalls == 1..NumStopCalls
notStopVars == <<innerVars, kvVars, msgVars, atVars, leaseVars>>

\* _cleanup, lines 185-190: the close it invokes first; "end" with nothing set.
cleanup_first(cons, cli) ==
  IF cons THEN "close_consumer" ELSE IF cli THEN "close_client" ELSE "end"

\* _cleanup, lines 186-192: what follows consumer.close; an exception of the
\* close is logged by the except branch, which ends _cleanup.
cleanup_second(ok, cli) == IF ok /\ cli THEN "close_client" ELSE "end"

\* run_in_executor(None, self.consumer.close) / (None, self.client.close).
InvokeClose(step) ==
  /\ consumer_closes' = IF step = "close_consumer" THEN consumer_closes + 1
                        ELSE consumer_closes
  /\ client_closes' = IF step = "close_client" THEN client_closes + 1
                      ELSE client_closes

\* The finally of _pulsar_listener, line 116-117: _cleanup begins, or the task
\* ends when there is nothing to close.
ListenerFinally(cons, cli) ==
  /\ listener_task' = IF cleanup_first(cons, cli) = "end" THEN "done"
                      ELSE cleanup_first(cons, cli)
  /\ InvokeClose(cleanup_first(cons, cli))

\* start, line 120: create_task(_pulsar_listener()).
StartListener ==
  /\ listener_task = "none"
  /\ listener_task' = "pending"
  /\ UNCHANGED <<must_cancel, client, consumer, consumer_closes, client_closes, stop_pc>>
  /\ UNCHANGED notStopVars

\* The first step of the task, up to the await of pulsar.Client (lines 64-77).
\* A task cancelled before its first step never runs its body.
ListenerRuns ==
  /\ listener_task = "pending"
  /\ listener_task' = IF must_cancel THEN "done" ELSE "client"
  /\ must_cancel' = FALSE
  /\ UNCHANGED <<client, consumer, consumer_closes, client_closes, stop_pc>>
  /\ UNCHANGED notStopVars

\* pulsar.Client(...) returns and the subscribe is submitted (75-98), or it
\* raises: except logs and re-raises, finally runs _cleanup (113-117).
ClientReturns ==
  /\ listener_task = "client"
  /\ ~must_cancel
  /\ \E ok \in BOOLEAN :
       IF ok
       THEN /\ client' = TRUE
            /\ listener_task' = "subscribe"
            /\ UNCHANGED <<consumer_closes, client_closes>>
       ELSE /\ ListenerFinally(consumer, client)
            /\ UNCHANGED client
  /\ UNCHANGED <<must_cancel, consumer, stop_pc>>
  /\ UNCHANGED notStopVars

\* client.subscribe(...) returns and the loop awaits its first receive (86-106).
SubscribeReturns ==
  /\ listener_task = "subscribe"
  /\ ~must_cancel
  /\ \E ok \in BOOLEAN :
       IF ok
       THEN /\ consumer' = TRUE
            /\ listener_task' = "receive"
            /\ UNCHANGED <<consumer_closes, client_closes>>
       ELSE /\ ListenerFinally(consumer, client)
            /\ UNCHANGED consumer
  /\ UNCHANGED <<must_cancel, client, stop_pc>>
  /\ UNCHANGED notStopVars

\* consumer.receive() returns a message, returns None (continue) or raises
\* (103-111).
ReceiveReturns ==
  /\ listener_task = "receive"
  /\ ~must_cancel
  /\ \E outcome \in {"message", "none", "raise"} :
       IF outcome = "raise"
       THEN ListenerFinally(consumer, client)
       ELSE /\ listener_task' = IF outcome = "message" THEN "process" ELSE "receive"
            /\ UNCHANGED <<consumer_closes, client_closes>>
  /\ UNCHANGED <<must_cancel, client, consumer, stop_pc>>
  /\ UNCHANGED notStopVars

\* _process_message returns and the loop receives again, or it raises (111-117).
ProcessReturns ==
  /\ listener_task = "process"
  /\ ~must_cancel
  /\ \E ok \in BOOLEAN :
       IF ok
       THEN /\ listener_task' = "receive"
            /\ UNCHANGED <<consumer_closes, client_closes>>
       ELSE ListenerFinally(consumer, client)
  /\ UNCHANGED <<must_cancel, client, consumer, stop_pc>>
  /\ UNCHANGED notStopVars

\* CancelledError is raised in the body of the listener: it is not an Exception,
\* so only the finally runs (116-117).
ListenerCancelled ==
  /\ listener_task \in {"client", "subscribe", "receive", "process"}
  /\ must_cancel
  /\ must_cancel' = FALSE
  /\ ListenerFinally(consumer, client)
  /\ UNCHANGED <<client, consumer, stop_pc>>
  /\ UNCHANGED notStopVars

\* A close of the listener's _cleanup returns or raises (185-193); _cleanup
\* returns after the last one and the task ends.
ListenerCleanup ==
  /\ listener_task \in {"close_consumer", "close_client"}
  /\ ~must_cancel
  /\ \E ok \in BOOLEAN :
       LET next == IF listener_task = "close_consumer"
                   THEN cleanup_second(ok, client) ELSE "end"
       IN  /\ listener_task' = IF next = "end" THEN "done" ELSE next
           /\ InvokeClose(next)
  /\ UNCHANGED <<must_cancel, client, consumer, stop_pc>>
  /\ UNCHANGED notStopVars

\* CancelledError is raised inside _cleanup, whose except Exception does not
\* catch it: the rest of _cleanup is skipped and the task ends.
CleanupCancelled ==
  /\ listener_task \in {"close_consumer", "close_client"}
  /\ must_cancel
  /\ must_cancel' = FALSE
  /\ listener_task' = "done"
  /\ UNCHANGED <<client, consumer, consumer_closes, client_closes, stop_pc>>
  /\ UNCHANGED notStopVars

\* stop, lines 195-200: with a task that is not done, task.cancel() and
\* await self.task; otherwise stop returns at once.
StopCall(s) ==
  /\ stop_pc[s] = "idle"
  /\ IF listener_task \notin {"none", "done"}
     THEN /\ must_cancel' = TRUE
          /\ stop_pc' = [stop_pc EXCEPT ![s] = "task"]
     ELSE /\ stop_pc' = [stop_pc EXCEPT ![s] = "done"]
          /\ UNCHANGED must_cancel
  /\ UNCHANGED <<listener_task, client, consumer, consumer_closes, client_closes>>
  /\ UNCHANGED notStopVars

\* stop, lines 200-204: the awaited task has ended, CancelledError is caught
\* and logged, then await self._cleanup().
StopCleanupBegins(s) ==
  /\ stop_pc[s] = "task"
  /\ listener_task = "done"
  /\ stop_pc' = [stop_pc EXCEPT ![s] = IF cleanup_first(consumer, client) = "end"
                                        THEN "done"
                                        ELSE cleanup_first(consumer, client)]
  /\ InvokeClose(cleanup_first(consumer, client))
  /\ UNCHANGED <<listener_task, must_cancel, client, consumer>>
  /\ UNCHANGED notStopVars

\* A close of stop's _cleanup returns or raises (185-193).
StopCloses(s) ==
  /\ stop_pc[s] \in {"close_consumer", "close_client"}
  /\ \E ok \in BOOLEAN :
       LET next == IF stop_pc[s] = "close_consumer"
                   THEN cleanup_second(ok, client) ELSE "end"
       IN  /\ stop_pc' = [stop_pc EXCEPT ![s] = IF next = "end" THEN "done" ELSE next]
           /\ InvokeClose(next)
  /\ UNCHANGED <<listener_task, must_cancel, client, consumer>>
  /\ UNCHANGED notStopVars

StopNext ==
  \/ StartListener
  \/ ListenerRuns
  \/ ClientReturns
  \/ SubscribeReturns
  \/ ReceiveReturns
  \/ ProcessReturns
  \/ ListenerCancelled
  \/ ListenerCleanup
  \/ CleanupCancelled
  \/ \E s \in StopCalls : StopCall(s)
  \/ \E s \in StopCalls : StopCleanupBegins(s)
  \/ \E s \in StopCalls : StopCloses(s)

StopSpec == Init /\ [][StopNext]_vars

\* ------------------------------------------- SerialManager: the modem lease
\* Operation 0 is a pass of test_all_connections, operations 1..NumSenders are
\* send_sms calls; they run as tasks of one event loop.  acquire_modem tests
\* in_use and then awaits wait_for(modem.lock.acquire(), 2.0), which may
\* suspend the caller before in_use is set.  get_best_modem, get_round_robin_modem
\* and the last scan of send_sms all choose among the modems that are available
\* and not in use; which of them is chosen is left open here.  Nothing calls
\* disable_modem, so is_available stays True.
Leased     == 1..NumLeased
Senders    == 1..NumSenders
Operations == 0..NumSenders
notLeaseVars == <<innerVars, kvVars, msgVars, atVars, stopVars>>

\* asyncio.Lock.acquire returns once the lock is not locked.
lock_never_held(m) == TRUE

lock_free(m) == ~lock[m]

\* The finally of send_sms, line 256, evaluates 'success', which is bound only
\* at line 246, after the sender returned: on the other paths the evaluation
\* raises UnboundLocalError and release_modem is not called.
success_bound(path) == path = "returned"

\* send_sms, lines 217-235: a modem that is available and not in use is
\* selected and acquire_modem runs up to its wait for the lock; with every
\* modem in use the call returns "no modem available".
LeaseModem(o) ==
  /\ o \in Senders
  /\ op_pc[o] = "idle"
  /\ IF \A m \in Leased : in_use[m]
     THEN /\ op_pc' = [op_pc EXCEPT ![o] = "done"]
          /\ exit_path' = [exit_path EXCEPT ![o] = "no_modem"]
          /\ UNCHANGED op_modem
     ELSE /\ \E m \in Leased :
               /\ ~in_use[m]
               /\ op_modem' = [op_modem EXCEPT ![o] = m]
          /\ op_pc' = [op_pc EXCEPT ![o] = "lock"]
          /\ UNCHANGED exit_path
  /\ UNCHANGED <<in_use, lock, tested>>
  /\ UNCHANGED notLeaseVars

\* test_all_connections, lines 292-298: the next modem of the loop; one that
\* is in use is recorded as not connected without being touched.
TestNextModem ==
  /\ op_pc[0] = "idle"
  /\ tested # Leased
  /\ LET m == CHOOSE x \in Leased \ tested : \A y \in Leased \ tested : x <= y
     IN  IF in_use[m]
         THEN /\ tested' = tested \cup {m}
              /\ UNCHANGED <<op_pc, op_modem>>
         ELSE /\ op_modem' = [op_modem EXCEPT ![0] = m]
              /\ op_pc' = [op_pc EXCEPT ![0] = "lock"]
              /\ UNCHANGED tested
  /\ UNCHANGED <<in_use, lock, exit_path>>
  /\ UNCHANGED notLeaseVars

\* acquire_modem, lines 179-183: the lock is acquired, in_use is set and the
\* caller goes on to use the modem.
LockAcquired(o) ==
  /\ op_pc[o] = "lock"
  /\ lock_free(op_modem[o])
  /\ lock' = [lock EXCEPT ![op_modem[o]] = TRUE]
  /\ in_use' = [in_use EXCEPT ![op_modem[o]] = TRUE]
  /\ op_pc' = [op_pc EXCEPT ![o] = IF o = 0 THEN "testing" ELSE "sending"]
  /\ UNCHANGED <<op_modem, exit_path, tested>>
  /\ UNCHANGED notLeaseVars

\* acquire_modem, lines 185-187: the lock stayed locked for two seconds;
\* send_sms returns "modem busy" (235-236), the test records False (297-298).
LockTimeout(o) ==
  /\ op_pc[o] = "lock"
  /\ lock[op_modem[o]]
  /\ IF o = 0
     THEN /\ tested' = tested \cup {op_modem[0]}
          /\ op_pc' = [op_pc EXCEPT ![0] = "idle"]
          /\ UNCHANGED exit_path
     ELSE /\ op_pc' = [op_pc EXCEPT ![o] = "done"]
          /\ exit_path' = [exit_path EXCEPT ![o] = "busy"]
          /\ UNCHANGED tested
  /\ UNCHANGED <<in_use, lock, op_modem>>
  /\ UNCHANGED notLeaseVars

\* send_sms, lines 241-256: the call of the sender ends: it returns an
\* SMSResult, raises, or the task is cancelled while it is awaited.  The finally
\* calls release_modem (192-205), which clears in_use and releases the lock,
\* only if 'success' can be evaluated.
SenderEnds(o) ==
  /\ o \in Senders
  /\ op_pc[o] = "sending"
  /\ \E path \in {"returned", "raised", "cancelled"} :
       /\ exit_path' = [exit_path EXCEPT ![o] = path]
       /\ IF success_bound(path)
          THEN /\ in_use' = [in_use EXCEPT ![op_modem[o]] = FALSE]
               /\ lock' = [lock EXCEPT ![op_modem[o]] = FALSE]
          ELSE UNCHANGED <<in_use, lock>>
  /\ op_pc' = [op_pc EXCEPT ![o] = "done"]
  /\ UNCHANGED <<op_modem, tested>>
  /\ UNCHANGED notLeaseVars

\* test_all_connections, lines 295-297: test_connection returns (its bare
\* except turns everything into False) and release_modem runs.
TestConnection ==
  /\ op_pc[0] = "testing"
  /\ in_use' = [in_use EXCEPT ![op_modem[0]] = FALSE]
  /\ lock' = [lock EXCEPT ![op_modem[0]] = FALSE]
  /\ tested' = tested \cup {op_modem[0]}
  /\ op_pc' = [op_pc EXCEPT ![0] = "idle"]
  /\ UNCHANGED <<op_modem, exit_path>>
  /\ UNCHANGED notLeaseVars

\* test_all_connections, lines 303-310: the loop is over.
TestEnds ==
  /\ op_pc[0] = "idle"
  /\ tested = Leased
  /\ op_pc' = [op_pc EXCEPT ![0] = "done"]
  /\ exit_path' = [exit_path EXCEPT ![0] = "returned"]
  /\ UNCHANGED <<in_use, lock, op_modem, tested>>
  /\ UNCHANGED notLeaseVars

LeaseNext ==
  \/ \E o \in Senders : LeaseModem(o)
  \/ TestNextModem
  \/ \E o \in Operations : LockAcquired(o)
  \/ \E o \in Operations : LockTimeout(o)
  \/ \E o \in Senders : SenderEnds(o)
  \/ TestConnection
  \/ TestEnds

LeaseSpec == Init /\ [][LeaseNext]_vars

\* The operations that use modem m: between a successful acquire_modem and
\* the end of the sender's or the test's call.
InFlight(m) ==
  {o \in Operations : op_modem[o] = m /\ op_pc[o] \in {"sending", "testing"}}

\* ------------------------------------------------ the SMS sender: send_sms
\* SMSSender.send_sms(phone_number, content) is called on a connected sender.
SenderInit ==
  /\ PipelineIdle
  /\ ManagerIdle
  /\ ComponentsIdle
  /\ content \in Bodies
  /\ reference_num \in RefValues
  /\ sender_pc = "send_sms"
  /\ encoded_segments = <<>>
  /\ results = <<>>
  /\ written = <<>>
  /\ reported = <<>>

\* What one AT+CMGS exchange can end in: +CMGS, +CMS ERROR after the payload
\* was written, or no ">" prompt (nothing written).
Outcomes == {"ok", "cms_error", "no_prompt"}

\* send_sms, lines 190-199, and send_long_sms up to its loop: the choice of the
\* path by len(content), and the encoding of a long body.
ChoosePath ==
  /\ sender_pc = "send_sms"
  /\ IF Len(content) <= SingleLimit
     THEN /\ sender_pc' = "single"
          /\ UNCHANGED encoded_segments
     ELSE /\ sender_pc' = "long"
          /\ encoded_segments' = encode_long_sms_ucs2(content, reference_num)
  /\ UNCHANGED <<poolVars, busVars, taskVars, managerVars, componentVars, content, reference_num,
                 results, written, reported>>

\* send_sms, line 194: return await self._send_encoded_sms(phone_ucs2, content, 1, 1).
SendEncodedSms ==
  /\ sender_pc = "single"
  /\ \E o \in Outcomes :
       /\ written' = IF o = "no_prompt" THEN written
                     ELSE Append(written, to_ucs2_hex(content))
       /\ reported' = <<o = "ok">>
  /\ sender_pc' = "done"
  /\ UNCHANGED <<poolVars, busVars, taskVars, managerVars, componentVars, content, reference_num,
                 encoded_segments, results>>

\* send_long_sms, lines 238-249: one pass of the loop over encoded_segments.
SendPduSms ==
  /\ sender_pc = "long"
  /\ LET segment_num == Len(results) + 1
     IN  /\ \E o \in Outcomes :
              /\ written' = IF o = "no_prompt" THEN written
                            ELSE Append(written, encoded_segments[segment_num].full_message_hex)
              /\ results' = Append(results, o = "ok")
         /\ sender_pc' = IF segment_num < Len(encoded_segments) THEN "long" ELSE "return"
  /\ UNCHANGED <<poolVars, busVars, taskVars, managerVars, componentVars, content, reference_num,
                 encoded_segments, reported>>

\* send_sms, lines 200-211: the result of the first segment is returned.
ReturnFirstResult ==
  /\ sender_pc = "return"
  /\ reported' = IF results # <<>> THEN <<results[1]>> ELSE <<FALSE>>
  /\ sender_pc' = "done"
  /\ UNCHANGED <<poolVars, busVars, taskVars, managerVars, componentVars, content, reference_num,
                 encoded_segments, results, written>>

SenderNext ==
  \/ ChoosePath
  \/ SendEncodedSms
  \/ SendPduSms
  \/ ReturnFirstResult

SenderSpec == SenderInit /\ [][SenderNext]_vars

\* ======================================================================
\* Properties of the consumption pipeline and its pool
\* ======================================================================

\* The loop of w has left _process_message for the message msg[w].
\* _process_message has returned for the message last delivered to listener w.
Returned(w) == pc[w] \in {"receive", "stopped"} /\ msg[w] # NoMsg

\* C1: every port has at most one live ModemWrapper, and while a wrapper for a
\* port is alive the port's lock flag is true (so try_new, which only takes a
\* port whose flag is clear, never hands out a second wrapper for it).
C1_OneWrapperPerPort ==
  \A p \in Ports :
    LET ws == {x \in wrappers : x.port = p}
    IN  /\ Cardinality(ws) <= 1
        /\ ws # {} => port_files[p].lock

\* A task sleeps because try_new found every port locked by a live wrapper.
C1_Witness ==
  \E w \in Workers :
    /\ pc[w] = "sleep"
    /\ pool_used[w]
    /\ \A p \in Ports : \E x \in wrappers : x.port = p /\ x.owner # w

C3_AckIffHandlerSuccess ==
  \A w \in Workers :
    /\ acks[w] >= 1 <=> handler_result[w] = "true"
    /\ handler_result[w] = "false" => nacks[w] = 1 /\ acks[w] = 0

\* One handler returned True after a send and was acked, another returned False
\* after a failed send and was nacked.
C3_Witness ==
  \E v, w \in Workers :
    /\ handler_result[v] = "true" /\ acks[v] = 1 /\ pool_used[v]
    /\ handler_result[w] = "false" /\ nacks[w] = 1 /\ pool_used[w] /\ cancelled[w] = "no"

\* C4: a message delivered with redelivery_count >= max_redelivery_count is
\* nacked by the first step of its processing; it is never decoded, never given
\* to the handler, and try_new is never called for it.
C4_PoisonedNackedAtOnce ==
  \A w \in Workers :
    (msg[w] # NoMsg /\ msg[w].redelivery_count >= max_redelivery_count /\ pc[w] # "process")
      => /\ Returned(w)
         /\ nacks[w] = 1 /\ acks[w] = 0
         /\ ~decoded[w] /\ handler_calls[w] = 0
         /\ ~pool_used[w] /\ modem_wrapper[w] = NoWrapper

\* A message at the cap, with a payload that would otherwise be sent, was nacked.
C4_Witness ==
  \E w \in Workers :
    /\ Returned(w)
    /\ msg[w].redelivery_count = max_redelivery_count /\ msg[w].data = "good"
    /\ nacks[w] = 1

\* C5 as stated: a payload that is not UTF-8 JSON (the empty payload included)
\* is nacked and never reaches the handler.
C5_Original ==
  \A w \in Workers :
    msg[w].data \in {"empty", "bad_utf8", "bad_json"}
      => /\ handler_calls[w] = 0
         /\ Returned(w) => nacks[w] = 1 /\ acks[w] = 0

\* C5 amended: a non-empty payload that is not UTF-8 JSON is nacked and never
\* reaches the handler; an empty payload below the redelivery cap is replaced by
\* {} and is handed to the handler once.
C5_UndecodableNacked ==
  \A w \in Workers :
    /\ msg[w].data \in {"bad_utf8", "bad_json"}
         => /\ handler_calls[w] = 0
            /\ Returned(w) => nacks[w] = 1 /\ acks[w] = 0
    /\ (msg[w].data = "empty" /\ msg[w].redelivery_count < max_redelivery_count
          /\ Returned(w))
         => handler_calls[w] = 1

\* An undecodable payload below the redelivery cap went through json.loads and
\* its message was nacked.
C5_Witness ==
  \E w \in Workers :
    /\ Returned(w) /\ decoded[w]
    /\ msg[w].data = "bad_json"
    /\ raised[w] = "JSONDecodeError" /\ nacks[w] = 1

\* C6: the step in which an exception is raised for a message nacks that message
\* (and does not ack it) and leaves the listener at consumer.receive().
C6_ExceptionBecomesNack ==
  [][\A w \in Workers :
       (raised[w] = "none" /\ raised'[w] # "none")
         => nacks'[w] = 1 /\ acks'[w] = 0 /\ pc'[w] = "receive"]_vars

\* An exception that reached the catch-all of _process_message was nacked and
\* the listener stands at consumer.receive() with deliveries still to come.
C6_Witness ==
  \E w \in Workers :
    /\ raised[w] \in {"UnicodeDecodeError", "TypeError"}
    /\ nacks[w] = 1 /\ pc[w] = "receive"
    /\ received < MaxMsgs

\* C7: a listener has at most one message that is neither acked nor nacked, and
\* none while it waits in consumer.receive().
C7_OneInFlight ==
  \A w \in Workers :
    /\ inflight[w] <= 1
    /\ pc[w] = "receive" => inflight[w] = 0

\* A listener is processing its second message, the first one being settled.
C7_Witness ==
  \E w \in Workers :
    /\ received = 2 /\ inflight[w] = 1
    /\ \A v \in Workers \ {w} : msg[v] = NoMsg

\* C8 as stated: the step in which a task that holds a wrapper finishes (its
\* local modem_wrapper goes away) leaves the port's lock flag false and its
\* last_used stamped with the time of that step.
C8_LeaseReleasedAtTaskEnd ==
  [][\A w \in Workers :
       (modem_wrapper[w] # NoWrapper /\ modem_wrapper'[w] = NoWrapper)
         => /\ ~port_files'[modem_wrapper[w].port].lock
            /\ port_files'[modem_wrapper[w].port].last_used = now']_vars

\* C9 as stated: a message whose task was cancelled while it waited for a modem
\* or while it sent gets neither ack nor nack, and the cancellation ends the
\* listener.
C9_CancelledNoBusAction ==
  \A w \in Workers :
    cancelled[w] # "no" => acks[w] = 0 /\ nacks[w] = 0 /\ pc[w] = "stopped"

\* C10 as stated: try_new hands out a wrapper only for a port that is healthy,
\* not locked and below the error threshold.
C10_AcquireOnlyEligible ==
  [][\A w \in Workers :
       (modem_wrapper[w] = NoWrapper /\ modem_wrapper'[w] # NoWrapper)
         => LET info == port_files[modem_wrapper'[w].port]
            IN  /\ info.status = "healthy"
                /\ ~info.lock
                /\ info.error_count < UnhealthyAt]_vars

\* C13: the waits slept through by one _wait_for_modem call are, in order, 60,
\* 180, 300, 420 and 540 seconds, then 60 seconds each; the wait in progress is
\* the next one of that schedule.
C13_BackoffSchedule ==
  \A w \in Workers :
    /\ \A i \in 1..Len(waited[w]) :
         waited[w][i] = (IF i <= 5 THEN 120 * i - 60 ELSE 60)
    /\ pc[w] = "sleep"
         => sleep_for[w] = (IF Len(waited[w]) < 5 THEN 120 * Len(waited[w]) + 60 ELSE 60)

\* A call with more than five attempts has slept through the whole list and
\* through a wait of 60 seconds after its sixth attempt.
C13_Witness ==
  \E w \in Workers : waited[w] = <<60, 180, 300, 420, 540, 60>>

\* C14 as stated: a send task leaves the wait loop only with a modem or by
\* cancellation.
C14_Original ==
  [][\A w \in Workers :
       (pc[w] \in {"acquire", "sleep"} /\ pc'[w] \notin {"acquire", "sleep"})
         => \/ pc'[w] = "send" /\ modem_wrapper'[w] # NoWrapper
            \/ cancelled'[w] # "no"]_vars

\* C14 amended: a send task leaves the wait loop only with a modem, by
\* cancellation, or after five failed attempts each followed by its wait; and an
\* attempt ends in a wait only if every port is locked.
C14_RetriesUpToFiveAttempts ==
  [][\A w \in Workers :
       /\ (pc[w] \in {"acquire", "sleep"} /\ pc'[w] \notin {"acquire", "sleep"})
            => \/ pc'[w] = "send" /\ modem_wrapper'[w] # NoWrapper
               \/ cancelled'[w] # "no"
               \/ tries[w] = 5 /\ Len(waited[w]) = 5
       /\ (pc[w] = "acquire" /\ pc'[w] = "sleep")
            => \A p \in Ports : port_files[p].lock]_vars

\* A task that found the pool saturated and slept holds a modem now: the port
\* was released during its wait and its next attempt obtained it.
C14_Witness ==
  \E w \in Workers :
    /\ pc[w] = "send" /\ modem_wrapper[w] # NoWrapper
    /\ waited[w] # <<>> /\ tries[w] = Len(waited[w]) + 1

\* C15: the step in which a message fails while its task is in the wait loop,
\* without a cancellation, comes after five try_new calls and after the waits
\* 60, 180, 300, 420, 540 were slept through, and nacks the message.
C15_NackOnlyAfterFullBackoff ==
  [][\A w \in Workers :
       (pc[w] \in {"acquire", "sleep"} /\ handler_result'[w] = "false"
          /\ cancelled'[w] = "no")
         => /\ waited[w] = <<60, 180, 300, 420, 540>>
            /\ tries[w] = 5
            /\ nacks'[w] = 1 /\ acks'[w] = 0]_vars

\* A message was nacked for MODEM_BUSY after the full schedule.
C15_Witness ==
  \E w \in Workers :
    /\ handler_result[w] = "false" /\ cancelled[w] = "no" /\ nacks[w] = 1
    /\ modem_wrapper[w] = NoWrapper /\ pc[w] = "receive"
    /\ tries[w] = 5 /\ waited[w] = <<60, 180, 300, 420, 540>>

\* ======================================================================
\* Properties of the legacy modem manager
\* ======================================================================

C12_TieLongerIdleWins ==
  (selected_modem # <<>> /\ selected_modem[1] # NoPort)
    => \A q \in available_modems(modems) :
         modem_score(modems[q], time_now) = modem_score(modems[selected_modem[1]], time_now)
           => modems[selected_modem[1]].last_used <= modems[q].last_used

\* ======================================================================
\* Properties of the SMS sender
\* ======================================================================

\* ceil(n / 67).
SegmentsFor(n) == (n + 66) \div 67

RECURSIVE Reassembled(_, _)
\* The payloads of segs with their 6-byte UDH stripped, concatenated in the order
\* of their SS byte from ss on.
Reassembled(segs, ss) ==
  IF ss > Len(segs) THEN <<>>
  ELSE LET k    == CHOOSE j \in 1..Len(segs) : segs[j].full_message_hex[6] = ss
           full == segs[k].full_message_hex
       IN  SubSeq(full, 7, Len(full)) \o Reassembled(segs, ss + 1)

\* C16 as stated: a body of N > 70 code units handed to _encode_long_sms_ucs2
\* comes back as ceil(N/67) segments, segment i with the UDH 05 00 03 RR TT SS,
\* SS = i, TT = the number of segments, RR the same throughout.
C16_SegmentCountAndUdh ==
  LET N == Len(code_units(content))
      T == Len(encoded_segments)
  IN  (encoded_segments # <<>> /\ N > 70)
        => /\ T = SegmentsFor(N)
           /\ \A i \in 1..T :
                SubSeq(encoded_segments[i].full_message_hex, 1, 6)
                  = <<5, 0, 3, encoded_segments[1].full_message_hex[4], T, i>>

\* C17 as stated: when send_sms has returned with every exchange having got its
\* prompt, a body of at most 70 code units went out as one payload without UDH,
\* and a body of 71 code units as two payloads with UDH carrying 67 and 4 units.
C17_SingleUpTo70TwoAt71 ==
  LET N == Len(code_units(content))
  IN  (sender_pc = "done" /\ Len(written) = Len(results) + (IF results = <<>> THEN 1 ELSE 0))
        => /\ N <= 70 => written = <<unit_bytes(code_units(content))>>
           /\ N = 71 => /\ Len(written) = 2
                        /\ \A i \in 1..2 : SubSeq(written[i], 1, 3) = <<5, 0, 3>>
                        /\ Len(written[1]) = 6 + 2 * 67
                        /\ Len(written[2]) = 6 + 2 * 4

\* C18: the payloads of the segments of one long message, UDH stripped and put
\* together in SS order, are the UTF-16-BE bytes of the body.
C18_ReassemblyRoundTrip ==
  encoded_segments # <<>>
    => Reassembled(encoded_segments, 1) = unit_bytes(code_units(content))

\* A body of three segments whose first character is a surrogate pair was encoded.
C18_Witness ==
  /\ Len(encoded_segments) = 3
  /\ content[1] >= 65536
  /\ Len(encoded_segments[3].full_message_hex) = 6 + 2

\* C19 as stated: no segment is sent after a segment that failed.
C19_StopAfterFailedSegment ==
  \A i \in 1..Len(results) : i < Len(results) => results[i]

\* C20 as stated: send_sms reports success for a long message only if every
\* segment succeeded, and failure if any segment failed.
C20_SuccessOnlyIfAllSegments ==
  (reported # <<>> /\ encoded_segments # <<>>)
    => (reported[1] <=> \A i \in 1..Len(results) : results[i])

\* ======================================================================
\* Properties of the legacy manager's sessions
\* ======================================================================

\* C21 as stated: a session whose error counter has reached 3 is unavailable,
\* and no send is handed to a session whose counter had reached 3.
C21_ErrorsDisableModem ==
  /\ \A p \in DOMAIN modems : modems[p].error_count >= 3 => ~modems[p].is_available
  /\ last_send.port # NoPort => last_send.error_count < 3

\* C23 as stated: after the discovery no two ports of the pool have the same
\* IMSI; a port that was kept has the highest signal among the connected ports
\* of its IMSI, and every connected port that was not kept was closed.
C23_OnePortPerImsi ==
  scan_pc = "done" =>
    /\ \A p, q \in tmp_ports : p # q => all_ports[p].imsi # all_ports[q].imsi
    /\ \A p \in tmp_ports : \A q \in Connected(all_ports) :
         all_ports[q].imsi = all_ports[p].imsi => all_ports[p].signal >= all_ports[q].signal
    /\ Connected(all_ports) \ tmp_ports \subseteq modem_closed

\* C24: the pool holds a session only for a port whose _initialize_modem
\* succeeded, so it is no larger than the set of those ports, and it shrinks
\* only in the step that ends cleanup.
C24_PoolHoldsInitialisedOnly ==
  [][/\ DOMAIN modems' \subseteq {p \in Modems : probe'[p] = "ok"}
     /\ Cardinality(DOMAIN modems') <= Cardinality({p \in Modems : probe'[p] = "ok"})
     /\ Cardinality(DOMAIN modems') < Cardinality(DOMAIN modems)
          => mgr_job = "cleanup" /\ mgr_job' = "cleaned"]_vars

\* One probe failed and one succeeded; the pool held the second only.
C24_Witness ==
  \E p, q \in Modems :
    /\ probe[p] = "failed" /\ probe[q] = "ok"
    /\ DOMAIN modems = {q}
    /\ mgr_job = "idle"

\* C25 as stated: when a pass of the health check is over, no session whose
\* check raised is in the pool.
C25_FaultedRemovedFromPool ==
  mgr_job = "idle" => faulted \cap DOMAIN modems = {}

\* C26 as stated: no send_sms selects a session whose connection was closed.
C26_NoClosedModemSelected ==
  last_send.port # NoPort => ~last_send.was_closed

\* C22: error_count of a port is never negative, and the step in which a send
\* succeeds leaves the error_count of its port no higher than it was.
C22_ErrorCountNeverRaisedBySuccess ==
  [][/\ \A p \in Ports : port_files[p].error_count >= 0 /\ port_files'[p].error_count >= 0
     /\ \A w \in Workers :
          (pc[w] = "send" /\ pc'[w] # "send" /\ handler_result'[w] = "true")
            => port_files'[modem_wrapper[w].port].error_count
                 <= port_files[modem_wrapper[w].port].error_count]_vars

\* A send failed on the port and a later send succeeded on it: the counter went
\* up to 1 and is back at 0.
C22_Witness ==
  \E w1, w2 \in Workers :
    /\ handler_result[w1] = "false" /\ cancelled[w1] = "no"
    /\ tries[w1] >= 1 /\ Len(waited[w1]) < Len(wait_times)
    /\ handler_result[w2] = "true"
    /\ \E p \in Ports : port_files[p].error_count = 0 /\ port_files[p].last_used > 0

\* ------------------------------------------- Properties of the service's life
Has(tag) == \E i \in DOMAIN steps : steps[i] = tag

Count(tag) == Cardinality({i \in DOMAIN steps : steps[i] = tag})

\* Every occurrence of a precedes every occurrence of b.
Before(a, b) == \A i, j \in DOMAIN steps : steps[i] = a /\ steps[j] = b => i < j

\* C27: once start() has succeeded, its steps were taken in the order load
\* configuration, initialise the pool, start the health loop, start the
\* server, publish the schema.
C27_StartupOrder ==
  start_result = "true" =>
    /\ Before("load_config", "init_pool")
    /\ Before("init_pool", "start_health")
    /\ Before("start_health", "start_server")
    /\ Before("start_server", "publish_schema")

\* C28: once stop() has finished, its steps were taken in the order retract
\* the schema, stop the server, cancel the health loop, close the pool.
C28_ShutdownOrder ==
  svc_pc = "stopped" =>
    /\ Before("retract_schema", "stop_server")
    /\ Before("stop_server", "cancel_health")
    /\ Before("cancel_health", "close_pool")

\* C29 as stated: however often stop() and request_shutdown() are invoked, the
\* health task is cancelled at most once, the task of run() is cancelled at
\* most once, and schema retraction, server stop and pool close happen at most
\* once each.
C29_EachTeardownStepOnce ==
  /\ Count("cancel_health") + Count("request_cancel_health") <= 1
  /\ Count("cancel_main") + Count("request_cancel_main") <= 1
  /\ Count("retract_schema") <= 1
  /\ Count("stop_server") <= 1
  /\ Count("close_pool") <= 1

\* C29 amended: however often stop() and request_shutdown() are invoked, schema
\* retraction, server stop and pool close happen at most once each, and each of
\* stop() and request_shutdown() issues its cancellation of the health task and
\* of the task of run() at most once; a task may be cancelled by both.
C29_TeardownIdempotent ==
  /\ Count("retract_schema") <= 1
  /\ Count("stop_server") <= 1
  /\ Count("close_pool") <= 1
  /\ Count("cancel_health") <= 1
  /\ Count("cancel_main") <= 1
  /\ Count("request_cancel_health") <= 1
  /\ Count("request_cancel_main") <= 1

\* stop() and request_shutdown() were both invoked twice around a full teardown.
C29_Witness ==
  /\ svc_pc = "stopped"
  /\ stops = MaxStops
  /\ signals = MaxSignals
  /\ Has("retract_schema")
  /\ Has("request_cancel_health")
  /\ Has("cancel_health")

\* C30: when the configuration cannot be loaded or the pool has no modem after
\* discovery, start() reports failure and the process exits with status 1; no
\* schema was published, no server started and no health loop exists.
C30_FailedStartLeavesNothing ==
  (fail_cause = "config" \/ serial_manager = "created") =>
    /\ start_result = "false"
    /\ exit_code = <<1>>
    /\ ~Has("publish_schema")
    /\ ~Has("start_server")
    /\ ~Has("start_health")
    /\ consul_client = "none"
    /\ grpc_server = "none"
    /\ health_task = "none"

\* start() returned False because the pool came up empty.
C30_Witness ==
  /\ fail_cause = "pool"
  /\ serial_manager = "created"
  /\ svc_pc = "exited"
  /\ Has("init_pool")

\* ------------------------------------------- Properties of the schema key
\* C31: when an instance has gone through deregister_service without a failed
\* Consul call, the schema key is gone if no other healthy instance of the
\* service name remains, and is as it was if one remains.
C31_KeyRetractedByLastInstance ==
  [][\A i \in Instances :
       (c_pc[i] \notin {"down", "live"} /\ c_pc'[i] = "down" /\ ~dereg_raised'[i])
         => IF active_services(i) = {} THEN ~kv' ELSE kv' = kv]_vars

\* C40: while an instance that has published the key by register_service has
\* not begun deregister_service, the key exists.
C40_KeyExistsWhileInstanceLive ==
  \A i \in Instances : c_pc[i] = "live" /\ kv_registered[i] => kv

\* ------------------------------------------- Properties of SMSMessage.from_dict
\* C32 as stated: a phone that starts with '+' is left as it is, any other
\* phone gets +86 in front; content and metadata pass through.
C32_Original ==
  (message # <<>> /\ message[1].raised = "none") =>
    /\ message[1].phone = (IF startswith_plus(json_data.phone) THEN json_data.phone
                           ELSE CountryCode \o json_data.phone)
    /\ message[1].content = json_data.content
    /\ message[1].metadata = json_data.metadata

\* C32 amended: the phone is first stripped of surrounding white space; the
\* stripped phone is kept if it starts with '+' and gets +86 in front
\* otherwise, so that the result never has white space at either end;
\* content and metadata pass through.
C32_PhoneNormalised ==
  (message # <<>> /\ message[1].raised = "none") =>
    LET given == json_data.phone
        out   == message[1].phone
    IN  /\ startswith_plus(out)
        /\ out[Len(out)] # " "
        /\ \E l, r \in 0..Len(given) :
             /\ l + r <= Len(given)
             /\ \A k \in (1..l) \cup ((Len(given) - r + 1)..Len(given)) : given[k] = " "
             /\ LET core == SubSeq(given, l + 1, Len(given) - r)
                IN  /\ core # <<>> => core[1] # " " /\ core[Len(core)] # " "
                    /\ out = (IF core # <<>> /\ core[1] = "+" THEN core ELSE CountryCode \o core)
        /\ message[1].content = json_data.content
        /\ message[1].metadata = json_data.metadata

\* A phone with white space before the '+' came out as the bare number.
C32_Witness ==
  /\ json_data.phone = <<" ", "+", "1">>
  /\ message # <<>>
  /\ message[1].raised = "none"
  /\ message[1].phone = <<"+", "1">>

\* ------------------------------------------- Properties of the AT dialogue
\* C33: a request with an empty body ends as a failed send and nothing is
\* written to the modem for it.
C33_EmptyBodyRejected ==
  body_chars = 0 =>
    /\ line = <<>>
    /\ dlg_result # <<>> => ~dlg_result[1].success

\* C34: a send whose final response has none of +CMGS, OK, ERROR and
\* +CMS ERROR is reported as failed.
C34_UnexpectedTerminatorFails ==
  (/\ dlg_result # <<>>
   /\ "ctrl_z" \in {line[k] : k \in DOMAIN line}
   /\ ~HasCmgs(final_response) /\ ~HasOk(final_response) /\ ~HasError(final_response))
    => ~dlg_result[1].success

\* C37: in both send paths the payload and Ctrl-Z are on the line only after
\* AT+CMGS and with '>' read in answer to it, the payload before Ctrl-Z; when
\* the second read shows no '>' either, the send has failed with no payload
\* written.
C37_PayloadOnlyAfterPrompt ==
  LET At(x) == {k \in DOMAIN line : line[k] = x}
  IN  /\ \A k \in At("payload") \cup At("ctrl_z") :
           /\ prompt
           /\ prompt_reads \in {1, 2}
           /\ \E c \in At("AT+CMGS") : c < k
      /\ \A z \in At("ctrl_z") : \E k \in At("payload") : k < z
      /\ (prompt_reads = 2 /\ ~prompt) =>
           /\ dlg_pc = "done"
           /\ ~dlg_result[1].success
           /\ At("payload") = {} /\ At("ctrl_z") = {}

\* A segment of a long message went out after '>' came with the second read.
C37_Witness ==
  /\ DialoguePath(body_chars) = "pdu"
  /\ prompt_reads = 2
  /\ prompt
  /\ line = <<"AT", "ATE0", "AT+CMGF=0", "AT+CMGS", "payload", "ctrl_z">>
  /\ dlg_result # <<>>
  /\ dlg_result[1].success

\* ------------------------------------------- Properties of the health check
\* C38: ModemManager.health_check returns true if and only if the health
\* check of at least one session of the pool returned true.
C38_HealthyIffOneModemHealthy ==
  [][(mgr_job = "health_check" /\ mgr_job' = "idle")
       => (is_healthy(modems) <=> healthy # {})]_vars


\* C39: over any run of start, message processing and stop() calls, close is
\* invoked at most once on the consumer and at most once on the client.
C39_EachClosedOnce == consumer_closes <= 1 /\ client_closes <= 1

\* C35: at no time are two operations (two sends, or a send and a connection
\* test) in flight on the same modem, and the modem's lock is held whenever
\* one is in flight.
C35_OneOperationPerModem ==
  \A m \in Leased : Cardinality(InFlight(m)) <= 1 /\ (InFlight(m) # {} => lock[m])

\* An operation uses a modem while another one, which chose the same modem,
\* waits for its lock.
C35_Witness ==
  \E m \in Leased : \E a, b \in Operations :
    /\ a \in InFlight(m)
    /\ op_modem[b] = m
    /\ op_pc[b] = "lock"

\* C36: when a send_sms call that acquired a modem ends, on whichever path,
\* the modem's in_use is false and its lock is unlocked.
C36_LeaseReleasedOnEveryExit ==
  [][\A o \in Senders :
       (op_pc[o] = "sending" /\ op_pc'[o] = "done")
         => (~in_use'[op_modem[o]] /\ ~lock'[op_modem[o]])]_vars

====
